---- MODULE Spec2Model ----
(***************************************************************************)
(* A model of the dancing-sprite pipeline: the generation service and the *)
(* Preview that plays its frames to the music.                             *)
(*                                                                         *)
(*   src/unnamed/part_001   the generation service with the flourish role  *)
(*                          and style-reference chaining                   *)
(*   src/services/gemini.ts the earlier generation service (base + alt,    *)
(*                          no style reference), and the upload encoder    *)
(*   src/unnamed/part_000   Step4Preview: the audio engine (play, the      *)
(*                          microphone, the audio file, teardown) and the  *)
(*                          director that picks a pose on every frame      *)
(*                                                                         *)
(* Promises are modelled by the position of each asynchronous call: a      *)
(* sheet request is issued synchronously by its caller and then advances   *)
(* by the callbacks the browser and the remote service deliver.            *)
(***************************************************************************)
EXTENDS Integers, Sequences, FiniteSets, TLC

VARIABLES
    \* ---- generateDanceFrames: its arguments and its position
    useTurbo,          \* argument useTurbo
    superMode,         \* argument superMode
    explicitCategory,  \* argument explicitCategory ("NONE" when absent)
    motionPrompt,      \* argument motionPrompt
    category,          \* the resolved SubjectCategory
    pc,                \* position of the generateDanceFrames call
    sheet,             \* role -> the generateSingleSheet call of that role
    calls,             \* the remote requests issued so far, in order
    allFrames,         \* the frame list the call returns
    error,             \* the Error the call throws ("" when none)
    \* ---- sliceSpriteSheet on its own
    sliceIn,           \* the decoded sheet: <<width, height>>
    slicePc,           \* "load" | "resolved" | "rejected"
    sliceOut,          \* the crops pushed to frames, in order
    \* ---- fileToGenericBase64
    file,              \* the source file: [valid, w, h]
    encPc,             \* position of the fileToGenericBase64 call
    encOut,            \* the data URL returned: [kind, w, h]
    encTrace,          \* what each step of the call met, in order
    \* ---- Step4Preview: the audio engine
    mounted,           \* FALSE once the component's cleanup has run
    audioPreviewUrl,   \* state.audioPreviewUrl: 0 (none) or the file's number
    isPlaying,         \* useState isPlaying
    isMicActive,       \* useState isMicActive
    audioCtx,          \* audioCtxRef.current: "none" | "running" | "closed"
    analyserToSink,    \* analyserRef.current is connected to ctx.destination
    audioRef,          \* audioRef.current: [exists, src, playing]
    audios,            \* how many Audio elements have been created
    micStreamRef,      \* micStreamRef.current: 0 (null) or a stream of streams
    streams,           \* the capture streams granted so far: "live"|"stopped"
    pendingCaptures,   \* getUserMedia calls that have not settled
    alerts,            \* how many alerts have been raised
    requestRef,        \* an animation frame callback is pending
    lastTick,          \* the last animate call: what it saw and what it read
    \* ---- Step4Preview: the director
    lastFrameTime,     \* lastFrameTimeRef.current: the time of the last frame
    frameCount,        \* how many frames the director has animated
    framesByEnergy,    \* useState framesByEnergy: low, mid, high -> poses
    closeupFrames,     \* useState closeupFrames
    stutterChance,     \* useState stutterChance
    superCamActive,    \* useState superCamActive: camera physics enabled
    brain,             \* the rhythm, interpolation and burst refs
    brainState,        \* useState brainState, the heads-up readout
    heard,             \* bass, mid and high of the last frame
    fired,             \* which branches of the brain the last frame took
    tearAmount,        \* tearAmountRef.current, in hundredths
    \* ---- Step4Preview: the frame set, its images and the style
    generatedFrames,   \* state.generatedFrames
    imagePreviewUrl,   \* state.imagePreviewUrl is set
    selectedStyleId,   \* state.selectedStyleId
    effectDue,         \* the "Initialize" effect has yet to run for its inputs
    loads,             \* one entry per run of the effect that loads images
    poseImages,        \* poseImagesRef.current: the map of a run, or none
    imagesReady,       \* useState imagesReady
    hologram,          \* hologramRef.current: "none" or its params
    exported,          \* what the last export handed to generatePlayerHTML
    drawn              \* the last renderFrame call: the pose and its bitmap

genVars   == <<useTurbo, superMode, explicitCategory, motionPrompt, category,
               pc, sheet, calls, allFrames, error>>
sliceVars == <<sliceIn, slicePc, sliceOut>>
encVars   == <<file, encPc, encOut, encTrace>>
audioVars == <<mounted, audioPreviewUrl, isPlaying, isMicActive, audioCtx,
               analyserToSink, audioRef, audios, micStreamRef, streams,
               pendingCaptures, alerts, requestRef, lastTick>>
dirVars   == <<lastFrameTime, frameCount, framesByEnergy, closeupFrames,
               stutterChance, superCamActive, brain, brainState, heard,
               fired, tearAmount>>
assetVars == <<generatedFrames, imagePreviewUrl, selectedStyleId, effectDue,
               loads, poseImages, imagesReady, hologram, exported, drawn>>
vars      == <<genVars, sliceVars, encVars, audioVars, dirVars, assetVars>>

\* What an action of one part leaves alone: the state of the other parts.
notGen     == <<sliceVars, encVars, audioVars, dirVars, assetVars>>
notSlice   == <<genVars, encVars, audioVars, dirVars, assetVars>>
notEnc     == <<genVars, sliceVars, audioVars, dirVars, assetVars>>
notService == <<genVars, sliceVars, encVars>>
notPreview == <<notService, assetVars>>
notAudio   == <<notPreview, dirVars>>

-----------------------------------------------------------------------------
(* Types of src/types as the generation service uses them.                 *)

SheetRole       == {"base", "alt", "flourish"}
SubjectCategory == {"CHARACTER", "TEXT", "SYMBOL"}
EnergyLevel     == {"low", "mid", "high"}
FrameType       == {"body", "closeup"}

\* const rows = 4; const cols = 4;
rows == 4
cols == 4

-----------------------------------------------------------------------------
(* String helpers: String.prototype.includes, toLowerCase and              *)
(* replace(/left|right/, x) (first match only: the regex has no g flag).   *)

MatchAt(s, i, sub) ==
    /\ i >= 1
    /\ i + Len(sub) - 1 <= Len(s)
    /\ SubSeq(s, i, i + Len(sub) - 1) = sub

includes(s, sub) == \E i \in 1..Len(s) : MatchAt(s, i, sub)

Min(S) == CHOOSE x \in S : \A y \in S : x <= y

LowerChar(c) ==
    CASE c = "A" -> "a" [] c = "B" -> "b" [] c = "C" -> "c" [] c = "D" -> "d"
      [] c = "E" -> "e" [] c = "F" -> "f" [] c = "G" -> "g" [] c = "H" -> "h"
      [] c = "I" -> "i" [] c = "J" -> "j" [] c = "K" -> "k" [] c = "L" -> "l"
      [] c = "M" -> "m" [] c = "N" -> "n" [] c = "O" -> "o" [] c = "P" -> "p"
      [] c = "Q" -> "q" [] c = "R" -> "r" [] c = "S" -> "s" [] c = "T" -> "t"
      [] c = "U" -> "u" [] c = "V" -> "v" [] c = "W" -> "w" [] c = "X" -> "x"
      [] c = "Y" -> "y" [] c = "Z" -> "z" [] OTHER -> c

RECURSIVE toLowerCase(_)
toLowerCase(s) ==
    IF Len(s) = 0 THEN s
    ELSE LowerChar(SubSeq(s, 1, 1)) \o toLowerCase(SubSeq(s, 2, Len(s)))

replaceDirection(s, rep) ==
    LET hits == {i \in 1..Len(s) : MatchAt(s, i, "left") \/ MatchAt(s, i, "right")}
    IN  IF hits = {} THEN s
        ELSE LET i == Min(hits)
                 m == IF MatchAt(s, i, "left") THEN "left" ELSE "right"
             IN  SubSeq(s, 1, i - 1) \o rep \o SubSeq(s, i + Len(m), Len(s))


-----------------------------------------------------------------------------
(* sliceSpriteSheet.  Lengths are integers counting hundredths of a pixel, *)
(* so that size / cols, the 8% inset and the 84% draw size are exact for   *)
(* the 4x4 grid; canvas sizes are whole pixels (Math.floor).  For every    *)
(* edge from 0 to 20000 px the IEEE double the code computes for           *)
(* rawCellW * (1 - 2 * insetFactor) has the same floor as the exact value. *)

\* const insetFactor = 0.08, as a percentage
InsetPct == 8

MinOf(a, b) == IF a < b THEN a ELSE b

\* The crop of grid cell (r, c): source rectangle (hundredths of a pixel)
\* and destination canvas size (pixels).
CropOf(w, h, nRows, nCols, r, c) ==
    LET size     == MinOf(w, h)
        startX   == (w - size) * 50
        startY   == (h - size) * 50
        rawCellW == (size * 100) \div nCols
        rawCellH == (size * 100) \div nRows
        insetX   == (rawCellW * InsetPct) \div 100
        insetY   == (rawCellH * InsetPct) \div 100
        drawW    == (rawCellW * (100 - 2 * InsetPct)) \div 100
        drawH    == (rawCellH * (100 - 2 * InsetPct)) \div 100
    IN  [ sx |-> startX + (c * rawCellW) + insetX,
          sy |-> startY + (r * rawCellH) + insetY,
          sw |-> drawW,
          sh |-> drawH,
          cw |-> drawW \div 100,
          ch |-> drawH \div 100 ]

\* sliceSpriteSheet with the loops nested the other way round.
sliceSpriteSheetColumnMajor(w, h, nRows, nCols) ==
    [ k \in 1..(nRows * nCols) |->
        CropOf(w, h, nRows, nCols, (k - 1) % nRows, (k - 1) \div nRows) ]

\* The nested loops: for r in 0..rows-1, for c in 0..cols-1, frames.push.
sliceSpriteSheet(w, h, nRows, nCols) ==
    [ k \in 1..(nRows * nCols) |->
        CropOf(w, h, nRows, nCols, (k - 1) \div nCols, (k - 1) % nCols) ]

-----------------------------------------------------------------------------
(* generateSingleSheet: the per-frame metadata and mirroring.              *)

\* The edge of the square sheet the remote service returns (requested 1:1).
SheetEdge == 1024

\* EnergyOfRow reading the rows as 1-based.
EnergyOfRowOneBased(row) ==
    IF row = 1 THEN "low"
    ELSE IF row = 2 THEN "mid"
    ELSE IF row = 3 THEN "mid"
    ELSE IF row = 4 THEN "high"
    ELSE "mid"

EnergyOfRow(row) ==
    IF row = 0 THEN "low"
    ELSE IF row = 1 THEN "mid"
    ELSE IF row = 2 THEN "mid"
    ELSE IF row = 3 THEN "high"
    ELSE "mid"

\* drew: Math.random() > 0.6 came out true for this frame
TypeOfFrame(cat, row, drew) ==
    IF row = 3 /\ cat = "CHARACTER" /\ drew THEN "closeup" ELSE "body"

PoseName(role, i, cat, row) ==
    LET base == role \o "_" \o ToString(i)
        l    == IF cat = "CHARACTER" /\ row = 1 THEN base \o "_left" ELSE base
    IN  IF cat = "CHARACTER" /\ row = 2 THEN l \o "_right" ELSE l

\* MirrorPose that keeps the source's direction token.
MirrorPoseSameDirection(poseName) == poseName \o "_mirror"

MirrorPose(poseName) ==
    LET mirrorSuffix == IF includes(poseName, "left") THEN "right_mirror"
                        ELSE "left_mirror"
    IN  replaceDirection(poseName, mirrorSuffix)

IsMirrored(cat, type, row) ==
    cat = "CHARACTER" /\ type = "body" /\ (row = 1 \/ row = 2)

\* mirrorFrame's result: the flipped image, or the input when no 2d context.
mirrorFrame(url, ctxOk) == IF ctxOk THEN [url EXCEPT !.flipped = TRUE] ELSE url

\* The results array of raw frame i (0-based).
FrameResults(role, cat, i, drew, ctxOk) ==
    LET row      == i \div cols
        energy   == EnergyOfRow(row)
        type     == TypeOfFrame(cat, row, drew)
        poseName == PoseName(role, i, cat, row)
        url      == [sheet |-> role, index |-> i, flipped |-> FALSE]
        first    == [url |-> url, pose |-> poseName, energy |-> energy,
                     type |-> type, role |-> role]
    IN  IF IsMirrored(cat, type, row)
        THEN << first,
                [url |-> mirrorFrame(url, ctxOk), pose |-> MirrorPose(poseName),
                 energy |-> energy, type |-> type, role |-> role] >>
        ELSE << first >>

RECURSIVE Flat(_)
Flat(ss) == IF ss = <<>> THEN <<>> ELSE Head(ss) \o Flat(Tail(ss))

\* nestedFrames.flat(): hi is the set of indices whose random draw exceeded 0.6
ProcessFrames(role, cat, nRaw, hi, ctxOk) ==
    Flat([ k \in 1..nRaw |-> FrameResults(role, cat, k - 1, (k - 1) \in hi, ctxOk) ])

\* The indices for which Math.random() is evaluated at all (short-circuit &&).
RandomDrawn(cat, nRaw) ==
    IF cat = "CHARACTER" THEN {i \in 0..(nRaw - 1) : i \div cols = 3} ELSE {}

-----------------------------------------------------------------------------
(* generateSingleSheet as a call in progress.                              *)
(*   status  none -> requested -> slicing -> processing -> done            *)
(*           (a failure anywhere inside the try block ends in done with    *)
(*            frames [] and no sheet; hung: a mirrorFrame promise that     *)
(*            never settles, its image having no onerror handler)          *)

NoCall == [status |-> "none", ref |-> FALSE, reason |-> "", frames |-> <<>>,
           sheetImage |-> FALSE, nRaw |-> 0]

\* The call as issued: the request leaves synchronously, before the first await.
Requested(withRef) == [NoCall EXCEPT !.status = "requested", !.ref = withRef]

\* catch (e) { return { frames: [], sheetBase64: undefined } }
Caught(call, why) ==
    [call EXCEPT !.status = "done", !.reason = why, !.frames = <<>>,
                 !.sheetImage = FALSE]

ApiOutcomes == {"image", "transport error", "No content returned",
                "No image data in response"}

\* await ai.models.generateContent(...) settles, and the payload is extracted.
ApiRespond(role) ==
    /\ sheet[role].status = "requested"
    /\ \E outcome \in ApiOutcomes :
         sheet' = [sheet EXCEPT ![role] =
                     IF outcome = "image"
                     THEN [@ EXCEPT !.status = "slicing", !.sheetImage = TRUE]
                     ELSE Caught(@, outcome)]
    /\ UNCHANGED <<useTurbo, superMode, explicitCategory, motionPrompt,
                   category, pc, calls, allFrames, error>>
    /\ UNCHANGED notGen

SliceOutcomes == {"sliced", "image decode failed", "Canvas context failed"}

\* await sliceSpriteSheet(...) settles.
SliceSettle(role) ==
    /\ sheet[role].status = "slicing"
    /\ \E outcome \in SliceOutcomes :
         sheet' = [sheet EXCEPT ![role] =
                     IF outcome = "sliced"
                     THEN [@ EXCEPT !.status = "processing",
                                    !.nRaw = Len(sliceSpriteSheet(SheetEdge, SheetEdge,
                                                                  rows, cols))]
                     ELSE Caught(@, outcome)]
    /\ UNCHANGED <<useTurbo, superMode, explicitCategory, motionPrompt,
                   category, pc, calls, allFrames, error>>
    /\ UNCHANGED notGen

\* The frame processing settles: every mirrorFrame promise resolved (with the
\* flipped image, or the original when no 2d context), or one never settles.
ProcessSettle(role) ==
    /\ sheet[role].status = "processing"
    /\ \/ \E hi \in SUBSET RandomDrawn(category, sheet[role].nRaw), ctxOk \in BOOLEAN :
            sheet' = [sheet EXCEPT ![role] =
                        [@ EXCEPT !.status = "done",
                                  !.frames = ProcessFrames(role, category,
                                                           sheet[role].nRaw,
                                                           hi, ctxOk)]]
       \/ /\ \E i \in 0..(sheet[role].nRaw - 1) :
               IsMirrored(category, "body", i \div cols)
          /\ sheet' = [sheet EXCEPT ![role].status = "hung"]
    /\ UNCHANGED <<useTurbo, superMode, explicitCategory, motionPrompt,
                   category, pc, calls, allFrames, error>>
    /\ UNCHANGED notGen

-----------------------------------------------------------------------------
(* generateDanceFrames of src/unnamed/part_001.                            *)

ResolveCategory(explicit, motion) ==
    IF explicit # "NONE" THEN explicit
    ELSE LET low == toLowerCase(motion)
         IN  IF includes(low, "text") \/ includes(low, "font") THEN "TEXT"
             ELSE IF includes(low, "logo") \/ includes(low, "icon") THEN "SYMBOL"
             ELSE "CHARACTER"

\* The (explicitCategory, motionPrompt) arguments the model draws from.
CategoryInputs ==
    { <<"NONE", "smooth dance">>, <<"NONE", "Bold TEXT reveal">>,
      <<"NONE", "spinning Logo">>, <<"SYMBOL", "kinetic font">> }

Request(role, withRef) == [role |-> role, ref |-> withRef]

GenInit ==
    /\ useTurbo \in BOOLEAN
    /\ superMode \in BOOLEAN
    /\ \E in \in CategoryInputs : explicitCategory = in[1] /\ motionPrompt = in[2]
    /\ category = "CHARACTER"
    /\ pc = "start"
    /\ sheet = [r \in SheetRole |-> NoCall]
    /\ calls = <<>>
    /\ allFrames = <<>>
    /\ error = ""

\* The call runs to its first await: category resolved, base sheet requested
\* without a style reference.
Start ==
    /\ pc = "start"
    /\ category' = ResolveCategory(explicitCategory, motionPrompt)
    /\ sheet' = [sheet EXCEPT !["base"] = Requested(FALSE)]
    /\ calls' = Append(calls, Request("base", FALSE))
    /\ pc' = "awaitBase"
    /\ UNCHANGED <<useTurbo, superMode, explicitCategory, motionPrompt,
                   allFrames, error>>
    /\ UNCHANGED notGen

\* ExpansionRoles with the flourish sheet forgotten in super mode.
ExpansionRolesNoFlourish(turbo, super) ==
    IF super \/ ~turbo THEN <<"alt">> ELSE <<>>

\* The roles of the expansion promises, in the order they are pushed.
ExpansionRoles(turbo, super) ==
    IF super THEN <<"alt", "flourish">>
    ELSE IF ~turbo THEN <<"alt">>
    ELSE <<>>

\* Collect that puts the frames of the expansion sheets first.
CollectExpansionFirst(frames, results) == Flat(results) \o frames

\* Collect that keeps the expansion frames only when every sheet has some.
CollectAllOrNothing(frames, results) ==
    IF \E k \in 1..Len(results) : Len(results[k]) = 0 THEN frames
    ELSE frames \o Flat(results)

\* results.forEach: append the frames of every result that has some.
RECURSIVE Collect(_, _)
Collect(frames, results) ==
    IF results = <<>> THEN frames
    ELSE Collect(IF Len(Head(results)) > 0 THEN frames \o Head(results) ELSE frames,
                 Tail(results))

\* The tail of the function: the final emptiness check and the return.
Finish(frames) ==
    IF Len(frames) = 0
    THEN /\ pc' = "failed"
         /\ error' = "Generation produced no valid frames."
         /\ allFrames' = <<>>
    ELSE /\ pc' = "returned"
         /\ error' = ""
         /\ allFrames' = frames

\* BaseFailed with the check left out (as in src/services/gemini.ts).
BaseFailedUnchecked(res) == FALSE

\* if (baseResult.frames.length === 0 || !baseResult.sheetBase64) throw
BaseFailed(res) == Len(res.frames) = 0 \/ ~res.sheetImage

\* ExpansionRequest with the baseRef argument left out.
ExpansionRequestNoRef(role) == Request(role, FALSE)

\* generateSingleSheet(ai, role, ..., category, baseRef)
ExpansionRequest(role) == Request(role, TRUE)

\* await generateSingleSheet('base') settles: the base check, then the
\* expansion requests leave (both of them, in super mode) before the next await.
BaseReturned ==
    /\ pc = "awaitBase"
    /\ sheet["base"].status = "done"
    /\ IF BaseFailed(sheet["base"])
       THEN /\ pc' = "failed"
            /\ error' = "Base generation failed."
            /\ UNCHANGED <<sheet, calls, allFrames>>
       ELSE LET exp == ExpansionRoles(useTurbo, superMode)
            IN  /\ sheet' = [r \in SheetRole |->
                               IF \E k \in 1..Len(exp) : exp[k] = r
                               THEN Requested(ExpansionRequest(r).ref)
                               ELSE sheet[r]]
                /\ calls' = calls \o [k \in 1..Len(exp) |-> ExpansionRequest(exp[k])]
                /\ IF Len(exp) > 0
                   THEN pc' = "awaitExpansion" /\ UNCHANGED <<allFrames, error>>
                   ELSE Finish(sheet["base"].frames)
    /\ UNCHANGED <<useTurbo, superMode, explicitCategory, motionPrompt, category>>
    /\ UNCHANGED notGen

\* await Promise.all(expansionPromises) settles.
ExpansionReturned ==
    /\ pc = "awaitExpansion"
    /\ LET exp == ExpansionRoles(useTurbo, superMode)
       IN  /\ \A k \in 1..Len(exp) : sheet[exp[k]].status = "done"
           /\ Finish(Collect(sheet["base"].frames,
                             [k \in 1..Len(exp) |-> sheet[exp[k]].frames]))
    /\ UNCHANGED <<useTurbo, superMode, explicitCategory, motionPrompt, category,
                   sheet, calls>>
    /\ UNCHANGED notGen

-----------------------------------------------------------------------------
(* generateDanceFrames of src/services/gemini.ts: base and (in super mode) *)
(* alt are requested together, without a style reference, and awaited      *)
(* together; useTurbo is not read.                                         *)

LegacyRoles(super) == IF super THEN <<"base", "alt">> ELSE <<"base">>

LegacyStart ==
    /\ pc = "start"
    /\ category' = ResolveCategory(explicitCategory, motionPrompt)
    /\ LET issued == LegacyRoles(superMode)
       IN  /\ sheet' = [r \in SheetRole |->
                          IF \E k \in 1..Len(issued) : issued[k] = r
                          THEN Requested(FALSE) ELSE sheet[r]]
           /\ calls' = calls \o [k \in 1..Len(issued) |-> Request(issued[k], FALSE)]
    /\ pc' = "awaitAll"
    /\ UNCHANGED <<useTurbo, superMode, explicitCategory, motionPrompt,
                   allFrames, error>>
    /\ UNCHANGED notGen

\* await Promise.all(promises) settles; results.flat(); the emptiness check.
LegacyReturned ==
    /\ pc = "awaitAll"
    /\ LET issued == LegacyRoles(superMode)
       IN  /\ \A k \in 1..Len(issued) : sheet[issued[k]].status = "done"
           /\ Finish(Flat([k \in 1..Len(issued) |-> sheet[issued[k]].frames]))
    /\ UNCHANGED <<useTurbo, superMode, explicitCategory, motionPrompt, category,
                   sheet, calls>>
    /\ UNCHANGED notGen

-----------------------------------------------------------------------------
(* sliceSpriteSheet as a promise: img.onload / img.onerror.                *)

\* The largest sheet edge the slicer is run on.
MaxSliceEdge == 64

\* Square sheets of every edge, and sheets wider or taller than square.
SliceSheets ==
    { <<e + d[1], e + d[2]>> :
        e \in 1..MaxSliceEdge,
        d \in {<<0, 0>>, <<1, 0>>, <<0, 1>>, <<3, 0>>, <<0, 3>>} }

SliceInit ==
    /\ sliceIn \in SliceSheets
    /\ slicePc = "load"
    /\ sliceOut = <<>>

\* img.onload: reject when no 2d context, else push every crop and resolve.
SliceOnLoad ==
    /\ slicePc = "load"
    /\ \E ctxOk \in BOOLEAN :
         IF ctxOk
         THEN /\ sliceOut' = sliceSpriteSheet(sliceIn[1], sliceIn[2], rows, cols)
              /\ slicePc' = "resolved"
         ELSE /\ sliceOut' = <<>>
              /\ slicePc' = "rejected"
    /\ UNCHANGED sliceIn
    /\ UNCHANGED notSlice

\* img.onerror = reject
SliceOnError ==
    /\ slicePc = "load"
    /\ slicePc' = "rejected"
    /\ UNCHANGED <<sliceIn, sliceOut>>
    /\ UNCHANGED notSlice

-----------------------------------------------------------------------------
(* fileToGenericBase64 -> resizeImage -> fileToBase64.                     *)
(*   encPc  start -> decode -> returned                                    *)
(*          readInner: the fileToBase64 fallback inside resizeImage        *)
(*          readOuter: the fileToBase64 of fileToGenericBase64's catch     *)

\* resizeImage's default maxDim
MaxDim == 384

\* How far around 1 and around maxDim the source sides range.
SideSpan == 2

Sides == (1..SideSpan) \cup ((MaxDim - SideSpan)..(MaxDim + SideSpan))
            \cup {161, 483, 2 * MaxDim}

EncInit ==
    /\ file \in [valid : BOOLEAN, w : Sides, h : Sides]
    /\ encPc = "start"
    /\ encOut = [kind |-> "none", w |-> 0, h |-> 0]
    /\ encTrace = <<>>

\* Math.floor(side * (maxDim / other)) in IEEE doubles.  When the exact
\* product is a whole number n the double may fall just below it (483 x 161
\* gives 127.99999999999999 for the exact 128), so the floor is n or n - 1;
\* otherwise the exact value is at least 1/other away from a whole number and
\* the floor is exact.
ScaledFloor(side, maxDim, other) ==
    IF (side * maxDim) % other = 0
    THEN {(side * maxDim) \div other, ((side * maxDim) \div other) - 1}
    ELSE {(side * maxDim) \div other}

\* ResizedDims without the else branch: only landscape images are scaled.
ResizedDimsLandscapeOnly(w, h, maxDim) ==
    IF w > h /\ w > maxDim
    THEN {<<maxDim, hh>> : hh \in ScaledFloor(h, maxDim, w)}
    ELSE {<<w, h>>}

\* The canvas sizes resizeImage can compute for a w x h image.
ResizedDims(w, h, maxDim) ==
    IF w > h
    THEN IF w > maxDim
         THEN {<<maxDim, hh>> : hh \in ScaledFloor(h, maxDim, w)}
         ELSE {<<w, h>>}
    ELSE IF h > maxDim
         THEN {<<ww, maxDim>> : ww \in ScaledFloor(w, maxDim, h)}
         ELSE {<<w, h>>}

\* fileToGenericBase64 calls resizeImage, which runs to img.src = url.
EncStart ==
    /\ encPc = "start"
    /\ IF ~file.valid
       THEN /\ encPc' = "readOuter"        \* reject("Invalid file"), caught
            /\ encTrace' = Append(encTrace, "invalidFile")
       ELSE \E urlOk \in BOOLEAN :
              /\ encPc' = IF urlOk THEN "decode" ELSE "readInner"
              /\ encTrace' = IF urlOk THEN encTrace
                              ELSE Append(encTrace, "urlThrew")
    /\ UNCHANGED <<file, encOut>>
    /\ UNCHANGED notEnc

\* img.onload: the canvas path, or the fallback when there is no 2d context
\* or drawing throws.
EncOnLoad ==
    /\ encPc = "decode"
    /\ \E ctxOk \in BOOLEAN, drawOk \in BOOLEAN :
         IF ctxOk /\ drawOk
         THEN \E d \in ResizedDims(file.w, file.h, MaxDim) :
                /\ encOut' = [kind |-> "resized", w |-> d[1], h |-> d[2]]
                /\ encPc' = "returned"
                /\ encTrace' = Append(encTrace, "encoded")
         ELSE /\ encPc' = "readInner"
              /\ encTrace' = Append(encTrace, IF ctxOk THEN "drawThrew"
                                                       ELSE "noContext")
              /\ UNCHANGED encOut
    /\ UNCHANGED file
    /\ UNCHANGED notEnc

\* EncOnError with reject(...) in place of the fileToBase64 fallback, in a
\* fileToGenericBase64 that does not catch.
EncOnErrorRejects ==
    /\ encPc = "decode"
    /\ encPc' = "failed"
    /\ encTrace' = Append(encTrace, "decodeError")
    /\ UNCHANGED <<file, encOut>>
    /\ UNCHANGED notEnc

\* img.onerror
EncOnError ==
    /\ encPc = "decode"
    /\ encPc' = "readInner"
    /\ encTrace' = Append(encTrace, "decodeError")
    /\ UNCHANGED <<file, encOut>>
    /\ UNCHANGED notEnc

\* fileToBase64: reader.onload resolves with the file's own data URL,
\* reader.onerror rejects.  A value that is no File makes readAsDataURL throw.
EncRead ==
    /\ encPc \in {"readInner", "readOuter"}
    /\ \E readOk \in BOOLEAN :
         IF readOk /\ file.valid
         THEN /\ encOut' = [kind |-> "original", w |-> file.w, h |-> file.h]
              /\ encPc' = "returned"
              /\ encTrace' = Append(encTrace, "readOk")
         ELSE /\ encPc' = IF encPc = "readInner" THEN "readOuter" ELSE "failed"
              /\ encTrace' = Append(encTrace, "readFailed")
              /\ UNCHANGED encOut
    /\ UNCHANGED file
    /\ UNCHANGED notEnc

-----------------------------------------------------------------------------
(* The audio engine of Step4Preview (src/unnamed/part_000).                *)
(*                                                                         *)
(* togglePlay and toggleMic run to their end in one step, except for the   *)
(* getUserMedia call of toggleMic: the request stays pending until the     *)
(* browser grants or denies it, and the rest of the handler runs then,     *)
(* with whatever the refs hold at that time.  ctx.resume() settles in the  *)
(* task that starts the context, before any capture can be granted, so it  *)
(* is no point where other handlers get in between.                        *)

\* How many getUserMedia calls and how many audio files a run makes.
MaxCaptures == 3
MaxFiles    == 2

NoPlayer == [exists |-> FALSE, src |-> 0, playing |-> FALSE]
NoTick   == [source |-> "none", playing |-> FALSE, file |-> 0, mic |-> FALSE]

\* The component as mounted: the refs and useState defaults, and the frame
\* the animate effect has requested.
AudioInit ==
    /\ mounted = TRUE
    /\ audioPreviewUrl \in {0, 1}
    /\ isPlaying = FALSE /\ isMicActive = FALSE
    /\ audioCtx = "none" /\ analyserToSink = FALSE
    /\ audioRef = NoPlayer /\ audios = 0
    /\ micStreamRef = 0 /\ streams = <<>>
    /\ pendingCaptures = 0 /\ alerts = 0
    /\ requestRef = TRUE
    /\ lastTick = NoTick

\* initAudioContext: the context after the call, and whether the analyser
\* feeds the destination (a new analyser is connected to it).
initAudioContext == IF audioCtx = "none" THEN "running" ELSE audioCtx
SinkAfterInit    == IF audioCtx = "none" THEN TRUE ELSE analyserToSink

\* pause() that does nothing.
pauseIgnored(player) == player

\* if (audioRef.current) audioRef.current.pause()
pause(player) ==
    IF player.exists THEN [player EXCEPT !.playing = FALSE] ELSE player

\* stream.getTracks().forEach(t => t.stop()) on the held stream, if any
StopHeld ==
    IF micStreamRef = 0 THEN streams
    ELSE [streams EXCEPT ![micStreamRef] = "stopped"]

\* getUserMedia calls made so far: granted, denied and pending
CaptureCalls == Len(streams) + alerts + pendingCaptures

\* togglePlay
TogglePlay ==
    /\ mounted
    /\ audioCtx' = initAudioContext
    /\ isPlaying' = ~isPlaying
    /\ IF isMicActive \/ audioPreviewUrl = 0
       THEN /\ analyserToSink' = SinkAfterInit
            /\ UNCHANGED <<audioRef, audios>>
       ELSE LET player == IF audioRef.exists THEN audioRef
                          ELSE [exists |-> TRUE, src |-> audioPreviewUrl,
                                playing |-> FALSE]
            IN  /\ analyserToSink' =
                     IF audioRef.exists THEN SinkAfterInit ELSE TRUE
                /\ audios' = IF audioRef.exists THEN audios ELSE audios + 1
                /\ audioRef' = [player EXCEPT !.playing = ~isPlaying]
    /\ UNCHANGED <<mounted, audioPreviewUrl, isMicActive, micStreamRef,
                   streams, pendingCaptures, alerts, requestRef, lastTick>>
    /\ UNCHANGED notAudio

\* toggleMic up to its end (mic active) or up to getUserMedia (mic inactive)
ToggleMic ==
    /\ mounted
    /\ isMicActive \/ CaptureCalls < MaxCaptures
    /\ audioCtx' = initAudioContext
    /\ analyserToSink' = SinkAfterInit
    /\ IF isMicActive
       THEN /\ streams' = StopHeld
            /\ micStreamRef' = 0
            /\ isMicActive' = FALSE
            /\ UNCHANGED pendingCaptures
       ELSE /\ pendingCaptures' = pendingCaptures + 1
            /\ UNCHANGED <<streams, micStreamRef, isMicActive>>
    /\ UNCHANGED <<mounted, audioPreviewUrl, isPlaying, audioRef, audios,
                   alerts, requestRef, lastTick>>
    /\ UNCHANGED notAudio

\* CaptureDenied with a catch block that also stops playback.
CaptureDeniedStopsPlayback ==
    /\ pendingCaptures > 0
    /\ pendingCaptures' = pendingCaptures - 1
    /\ alerts' = alerts + 1
    /\ isPlaying' = FALSE
    /\ audioRef' = pause(audioRef)
    /\ UNCHANGED <<mounted, audioPreviewUrl, isMicActive, audioCtx,
                   analyserToSink, audios, micStreamRef, streams,
                   requestRef, lastTick>>
    /\ UNCHANGED notAudio

\* getUserMedia resolves: the rest of toggleMic's try block.  The state
\* setters of a component that is no longer mounted do nothing.
CaptureGranted ==
    /\ pendingCaptures > 0
    /\ pendingCaptures' = pendingCaptures - 1
    /\ streams' = Append(streams, "live")
    /\ micStreamRef' = Len(streams) + 1
    /\ analyserToSink' = FALSE
    /\ IF mounted
       THEN isMicActive' = TRUE /\ isPlaying' = TRUE
       ELSE UNCHANGED <<isMicActive, isPlaying>>
    /\ audioRef' = pause(audioRef)
    /\ UNCHANGED <<mounted, audioPreviewUrl, audioCtx, audios, alerts,
                   requestRef, lastTick>>
    /\ UNCHANGED notAudio

\* getUserMedia rejects: the catch block
CaptureDenied ==
    /\ pendingCaptures > 0
    /\ pendingCaptures' = pendingCaptures - 1
    /\ alerts' = alerts + 1
    /\ UNCHANGED <<mounted, audioPreviewUrl, isPlaying, isMicActive, audioCtx,
                   analyserToSink, audioRef, audios, micStreamRef, streams,
                   requestRef, lastTick>>
    /\ UNCHANGED notAudio

\* AudioFileChanged with an effect that only clears the playing flag.
AudioFileChangedKeepsPlayer ==
    /\ mounted
    /\ audioPreviewUrl < MaxFiles
    /\ audioPreviewUrl' = audioPreviewUrl + 1
    /\ isPlaying' = FALSE
    /\ UNCHANGED <<mounted, isMicActive, audioCtx, analyserToSink, audioRef,
                   audios, micStreamRef, streams, pendingCaptures, alerts,
                   requestRef, lastTick>>
    /\ UNCHANGED notAudio

\* A new audio file is uploaded (each upload has its own object URL) and
\* the effect on state.audioPreviewUrl runs.
AudioFileChanged ==
    /\ mounted
    /\ audioPreviewUrl < MaxFiles
    /\ audioPreviewUrl' = audioPreviewUrl + 1
    /\ audioRef' = NoPlayer
    /\ isPlaying' = FALSE
    /\ UNCHANGED <<mounted, isMicActive, audioCtx, analyserToSink, audios,
                   micStreamRef, streams, pendingCaptures, alerts,
                   requestRef, lastTick>>
    /\ UNCHANGED notAudio

\* Where one animate call takes bass, mid and high from.
AnalysisSource ==
    IF isPlaying /\ audioCtx # "none" THEN "analyser"
    ELSE IF isPlaying /\ audioPreviewUrl = 0 /\ ~isMicActive THEN "clock"
    ELSE "silent"

\* animate as the audio engine sees it: it requests the next frame and
\* analyses the audio.  What the director does with the levels is
\* DirectorTick.
AudioTick ==
    /\ mounted /\ requestRef
    /\ requestRef' = TRUE
    /\ lastTick' = [source |-> AnalysisSource, playing |-> isPlaying,
                    file |-> audioPreviewUrl, mic |-> isMicActive]
    /\ UNCHANGED <<mounted, audioPreviewUrl, isPlaying, isMicActive, audioCtx,
                   analyserToSink, audioRef, audios, micStreamRef, streams,
                   pendingCaptures, alerts>>
    /\ UNCHANGED notAudio

\* The cleanups run when the component unmounts.
Teardown ==
    /\ mounted
    /\ mounted' = FALSE
    /\ streams' = StopHeld
    /\ requestRef' = FALSE
    /\ audioCtx' = IF audioCtx = "none" THEN "none" ELSE "closed"
    /\ UNCHANGED <<audioPreviewUrl, isPlaying, isMicActive, analyserToSink,
                   audioRef, audios, micStreamRef, pendingCaptures, alerts,
                   lastTick>>
    /\ UNCHANGED notAudio

-----------------------------------------------------------------------------
(* The director of Step4Preview: section 2 of animate, the choreography    *)
(* brain.  Times are in ms, audio levels in hundredths (bass > 0.35 is     *)
(* bass > 35).  Each Math.random() draw is a choice.                       *)

\* How many frames a run animates, and the times between two frames: inside
\* the pose lock and beyond it, and beyond every other wait of the brain.
MaxFrames == 3
Steps     == {100, 200, 1600}

\* const poseLockTime = isBurst ? 60 : 150
BurstLockTime  == 60
PoseLockTime   == 150
\* const beatThreshold = 0.35; isHardHit = bass > 0.8; isSnare = mid > 0.6
BeatThreshold  == 35
HardThreshold  == 80
SnareThreshold == 60
\* the idle fallback's waits, the snare's wait and the length of a burst
IdleSinceBeat   == 1500
IdleSinceSwitch == 1000
SnareGap        == 800
BurstLength     == 400
\* transitionDurationRef: initial, FLOW on a beat, FLOW on idle
InitialDuration == 100
FlowDuration    == 240
IdleDuration    == 800
\* the camera impulse of a beat hit: the shake amount and the zoom (in
\* hundredths) of a hard hit and of any other, and the pan push
HardShake  == 15
SoftShake  == 5
HardZoom   == 115
SoftZoom   == 105
PanImpulse == 20

\* The levels one analysis can deliver: bass at and above each threshold,
\* mid and high at and above theirs.
AudioLevels ==
    {[bass |-> b, mid |-> m[1], high |-> m[2]] :
        b \in {BeatThreshold, HardThreshold, HardThreshold + 1},
        m \in {<<SnareThreshold, SnareThreshold>>,
               <<SnareThreshold, SnareThreshold + 1>>,
               <<SnareThreshold + 1, SnareThreshold>>}}

Silence == [bass |-> 0, mid |-> 0, high |-> 0]

\* Frame lists the Preview can be given: a generated sheet (one frame of
\* each kind, named as generateSingleSheet names them), the uploaded
\* image alone, or nothing at all.
FrameSets ==
    { << [pose |-> "base_0",              energy |-> "low",  type |-> "body"],
         [pose |-> "base_4_left",         energy |-> "mid",  type |-> "body"],
         [pose |-> "base_4_right_mirror", energy |-> "mid",  type |-> "body"],
         [pose |-> "base_12",             energy |-> "high", type |-> "body"],
         [pose |-> "base_13",             energy |-> "high",
          type |-> "closeup"] >>,
      << [pose |-> "base", energy |-> "low", type |-> "body"] >>,
      << >> }

PosesOf(frames, energy, type) ==
    LET keep == SelectSeq(frames,
                    LAMBDA f : f.type = type /\ f.energy \in energy)
    IN  [k \in 1..Len(keep) |-> keep[k].pose]

\* The "Sort Frames" effect: the pools by energy with their fallbacks, and
\* the closeups.
SortFrames(frames) ==
    LET low0 == PosesOf(frames, {"low"}, "body")
        low  == IF low0 = <<>> /\ frames # <<>> /\ frames[1].type = "body"
                THEN <<frames[1].pose>> ELSE low0
        mid0 == PosesOf(frames, {"mid"}, "body")
        mid  == IF mid0 = <<>> THEN low ELSE mid0
        hi0  == PosesOf(frames, {"high"}, "body")
    IN  [low |-> low, mid |-> mid,
         high |-> IF hi0 = <<>> THEN mid ELSE hi0,
         closeups |-> PosesOf(frames, EnergyLevel, "closeup")]

\* p.toLowerCase().includes(dir), for every pose of FrameSets
Directions ==
    [p \in UNION {{fs[k].pose : k \in 1..Len(fs)} : fs \in FrameSets} |->
        {d \in {"left", "right"} : includes(toLowerCase(p), d)}]

\* The zoom the camera returns to, the zoom it holds in FLOW mode, and the
\* tear above which the main image is drawn in slices (hundredths)
RestZoom      == 100
BreathZoom    == 105
TearThreshold == 10

\* No impulse on the camera
NoImpulse == [kind |-> "none", shake |-> 0, zoom |-> 0, pan |-> 0]

\* What a frame can record in fired: the branches taken (beat, idle, snare,
\* burst), whether the stutter roll succeeded, the direction, pool and
\* pose a beat hit or idle fallback drew, whether that changed the target
\* pose, the impulse a beat hit gave the camera, and the zoom the camera
\* physics of the frame moved towards (in hundredths).
NoEvents == [beat |-> FALSE, idle |-> FALSE, snare |-> FALSE,
             burst |-> FALSE, roll |-> FALSE, moved |-> FALSE,
             dir |-> "", pool |-> <<>>, pick |-> "", impulse |-> NoImpulse,
             zoomTarget |-> RestZoom]

DirectorInit ==
    /\ lastFrameTime = 0 /\ frameCount = 0
    /\ \E fs \in FrameSets :
         LET sorted == SortFrames(fs)
         IN  /\ framesByEnergy = [e \in EnergyLevel |-> sorted[e]]
             /\ closeupFrames = sorted.closeups
    /\ stutterChance \in {0, 50, 100}
    /\ superCamActive = TRUE
    /\ brain = [lastSwitchTime |-> 0, lastBeatTime |-> 0,
                lastSnareTime |-> 0, beatCounter |-> 0,
                targetPose |-> "base", previousPose |-> "base",
                transitionStart |-> 0,
                transitionDuration |-> InitialDuration,
                transitionMode |-> "CUT", burstModeUntil |-> 0,
                lastMoveDirection |-> "right"]
    /\ brainState = [intention |-> "IDLE", nextDir |-> "LEFT",
                     confidence |-> 0, activePoseName |-> "BASE"]
    /\ heard = Silence
    /\ fired = NoEvents
    /\ tearAmount = 0

\* TransitionOf that sets the mode and leaves the duration as constructed.
TransitionOfModeOnly(isHardHit, isPatternCut) ==
    [mode     |-> IF isHardHit \/ isPatternCut THEN "CUT" ELSE "FLOW",
     duration |-> InitialDuration]

\* TransitionOf that cuts on a hard hit only, whatever the bar phase.
TransitionOfHardOnly(isHardHit, isPatternCut) ==
    IF isHardHit
    THEN [mode |-> "CUT", duration |-> 0]
    ELSE [mode |-> "FLOW", duration |-> FlowDuration]

\* PATTERN LOGIC: the transition of a beat hit that changes the pose
TransitionOf(isHardHit, isPatternCut) ==
    IF isHardHit \/ isPatternCut
    THEN [mode |-> "CUT", duration |-> 0]
    ELSE [mode |-> "FLOW", duration |-> FlowDuration]

\* FinalPool without the direction filter.
FinalPoolUnfiltered(pool, nextDir) == pool

\* const dirPool = pool.filter(p => p.toLowerCase().includes(nextDir));
\* const finalPool = dirPool.length > 0 ? dirPool : pool
FinalPool(pool, nextDir) ==
    LET dirPool == SelectSeq(pool, LAMBDA p : nextDir \in Directions[p])
    IN  IF dirPool # <<>> THEN dirPool ELSE pool

\* The pool of a beat hit by energy: high on a hard hit, else mid, each
\* with its fallback
EnergyPool(isHardHit) ==
    IF isHardHit
    THEN IF framesByEnergy.high # <<>> THEN framesByEnergy.high
         ELSE framesByEnergy.mid
    ELSE IF framesByEnergy.mid # <<>> THEN framesByEnergy.mid
         ELSE framesByEnergy.low

\* "Physics Impulse": what a beat hit gives the camera, by the transition
\* mode the refs hold after the pick.  The shake is (Math.random() - 0.5)
\* times the amount recorded here.
Impulse(mode, isHardHit, nextDir) ==
    IF ~superCamActive THEN NoImpulse
    ELSE IF mode = "CUT"
    THEN [kind |-> "shake",
          shake |-> IF isHardHit THEN HardShake ELSE SoftShake,
          zoom |-> IF isHardHit THEN HardZoom ELSE SoftZoom,
          pan |-> 0]
    ELSE [kind |-> "pan", shake |-> 0, zoom |-> 0,
          pan |-> IF nextDir = "left" THEN 0 - PanImpulse ELSE PanImpulse]

\* A. Standard Beat Hit, at time t on the levels lv: every outcome of its
\* random draws.  setBrainState's updater is taken to run at once.
BeatHit(b, hud, t, lv) ==
    LET b1 == [b EXCEPT !.lastBeatTime = t, !.lastSwitchTime = t,
                        !.beatCounter = (@ + 1) % 4]
        isPatternCut == b1.beatCounter < 2
        isHardHit    == lv.bass > HardThreshold
        flipped      == IF b.lastMoveDirection = "left" THEN "right"
                        ELSE "left"
        pools ==
            IF (lv.mid > SnareThreshold \/ lv.high > SnareThreshold)
               /\ closeupFrames # <<>>
            THEN {closeupFrames, EnergyPool(isHardHit)}
            ELSE {EnergyPool(isHardHit)}
        Outcome(nextDir, pool, nextPose) ==
            IF nextPose = "" \/ nextPose = b.targetPose
            THEN [brain |-> b1, hud |-> hud, moved |-> FALSE,
                  dir |-> nextDir, pool |-> pool, pick |-> nextPose,
                  impulse |-> Impulse(b1.transitionMode, isHardHit, nextDir)]
            ELSE LET tr == TransitionOf(isHardHit, isPatternCut)
                 IN  [brain |-> [b1 EXCEPT
                                   !.previousPose = b.targetPose,
                                   !.targetPose = nextPose,
                                   !.transitionStart = t,
                                   !.lastMoveDirection = nextDir,
                                   !.transitionMode = tr.mode,
                                   !.transitionDuration = tr.duration],
                      hud |-> [activePoseName |-> nextPose,
                               intention |-> IF tr.mode = "CUT"
                                             THEN "IMPACT (CUT)"
                                             ELSE "GLIDE (FLOW)",
                               confidence |-> lv.bass,
                               nextDir |-> IF nextDir = "left" THEN "RIGHT"
                                           ELSE "LEFT"],
                      moved |-> TRUE,
                      dir |-> nextDir, pool |-> pool, pick |-> nextPose,
                      impulse |-> Impulse(tr.mode, isHardHit, nextDir)]
    IN  UNION { IF FinalPool(pool, d) = <<>>
                THEN {Outcome(d, pool, "")}
                ELSE {Outcome(d, pool, FinalPool(pool, d)[k]) :
                         k \in 1..Len(FinalPool(pool, d))} :
                d \in {flipped, b.lastMoveDirection}, pool \in pools }

\* IdlePool that draws from the mid pool.
IdlePoolMid == framesByEnergy.mid

\* const pool = framesByEnergy.low
IdlePool == framesByEnergy.low

\* B. Ambient / Idle Fallback
IdleFallback(b, hud, t) ==
    LET b1   == [b EXCEPT !.lastSwitchTime = t]
        pool == IdlePool
        Outcome(nextPose) ==
            IF nextPose = "" \/ nextPose = b.targetPose
            THEN [brain |-> b1, hud |-> hud, moved |-> FALSE,
                  dir |-> "", pool |-> pool, pick |-> nextPose,
                  impulse |-> NoImpulse]
            ELSE [brain |-> [b1 EXCEPT
                               !.previousPose = b.targetPose,
                               !.targetPose = nextPose,
                               !.transitionStart = t,
                               !.transitionMode = "FLOW",
                               !.transitionDuration = IdleDuration],
                  hud |-> hud, moved |-> TRUE,
                  dir |-> "", pool |-> pool, pick |-> nextPose,
                  impulse |-> NoImpulse]
    IN  IF pool = <<>> THEN {Outcome("")}
        ELSE {Outcome(pool[k]) : k \in 1..Len(pool)}

\* SnareLogic whose stutter roll succeeds or fails whatever the chance.
SnareLogicAnyRoll(b, t) ==
    LET b1 == [b EXCEPT !.lastSnareTime = t]
    IN  {[b1 EXCEPT !.burstModeUntil = t + BurstLength], b1}

\* C. Snare Logic: the brains after it, by the stutter roll
\* (Math.random() * 100 < stutterChance).
SnareLogic(b, t) ==
    LET b1 == [b EXCEPT !.lastSnareTime = t]
    IN  (IF stutterChance > 0
         THEN {[b1 EXCEPT !.burstModeUntil = t + BurstLength]} ELSE {})
        \cup (IF stutterChance < 100 THEN {b1} ELSE {})

\* BurstCut that leaves the previous pose.
BurstCutKeepsPrevious(b, t) ==
    LET b1   == [b EXCEPT !.lastSwitchTime = t]
        pool == IF framesByEnergy.high # <<>> THEN framesByEnergy.high
                ELSE framesByEnergy.mid
    IN  IF pool = <<>> THEN {b1}
        ELSE {[b1 EXCEPT !.targetPose = pool[k],
                         !.transitionMode = "CUT",
                         !.transitionDuration = 0] : k \in 1..Len(pool)}

\* The burst cut at the end of the playing branch
BurstCut(b, t) ==
    LET b1   == [b EXCEPT !.lastSwitchTime = t]
        pool == IF framesByEnergy.high # <<>> THEN framesByEnergy.high
                ELSE framesByEnergy.mid
    IN  IF pool = <<>> THEN {b1}
        ELSE {[b1 EXCEPT !.targetPose = pool[k],
                         !.previousPose = pool[k],
                         !.transitionMode = "CUT",
                         !.transitionDuration = 0] : k \in 1..Len(pool)}

\* LockTime that is the burst's in every mode.
LockTimeAlwaysBurst(isBurst) == BurstLockTime

\* LockTime that is the same in burst mode.
LockTimeNoBurst(isBurst) == PoseLockTime

\* const poseLockTime = isBurst ? 60 : 150
LockTime(isBurst) == IF isBurst THEN BurstLockTime ELSE PoseLockTime

\* SnareDue that waits for the pose lock as well.
SnareDueWhenUnlocked(t, lv, canSwitch) ==
    /\ lv.mid > SnareThreshold
    /\ t - brain.lastSnareTime > SnareGap
    /\ canSwitch

\* isSnare && now - lastSnareTimeRef.current > 800
SnareDue(t, lv, canSwitch) ==
    /\ lv.mid > SnareThreshold
    /\ t - brain.lastSnareTime > SnareGap

\* Section 2 of animate runs for every frame.
BrainAlwaysEnabled == TRUE

\* if (isPlaying) { ... }: the gate around the branches of section 2
BrainEnabled == isPlaying

\* The zoom target of a frame whatever the mode: 1.0.
TargetZoomAtRest(mode, playing) == RestZoom

\* const targetZoom =
\*     (transitionModeRef.current === 'FLOW' && isPlaying) ? 1.05 : 1.0
TargetZoom(mode, playing) ==
    IF mode = "FLOW" /\ playing THEN BreathZoom ELSE RestZoom

\* Section 3 of animate, the zoom: towards targetZoom with the camera
\* physics on, towards 1.0 with it off.  mode is the transition mode
\* section 2 of the same frame has left.
ZoomTarget(mode) ==
    IF superCamActive THEN TargetZoom(mode, isPlaying) ELSE RestZoom

\* An effects decay that leaves the tear at full strength.
TearDecayToFull(x) == 100

\* tearAmountRef.current *= 0.8 (0 * 0.8 is 0 exactly)
TearDecay(x) == (x * 8) \div 10

\* if (tearAmountRef.current > 0.1): the main image pass draws the pose
\* in 8 shifted slices
TearSlicesDrawn == tearAmount > TearThreshold

\* animate at time t with the analysed levels lv while playing
Choreograph(t, lv) ==
    LET isBurst   == t < brain.burstModeUntil
        canSwitch == t - brain.lastSwitchTime > LockTime(isBurst)
        isBeatHit == lv.bass > BeatThreshold /\ canSwitch
        isIdle    == /\ ~isBeatHit
                     /\ t - brain.lastBeatTime > IdleSinceBeat
                     /\ canSwitch
                     /\ t - brain.lastSwitchTime > IdleSinceSwitch
        isSnare   == SnareDue(t, lv, canSwitch)
        isCut     == isBurst /\ canSwitch
        AB == IF isBeatHit THEN BeatHit(brain, brainState, t, lv)
              ELSE IF isIdle THEN IdleFallback(brain, brainState, t)
              ELSE {[brain |-> brain, hud |-> brainState, moved |-> FALSE,
                     dir |-> "", pool |-> <<>>, pick |-> "",
                     impulse |-> NoImpulse]}
    IN  \E ab \in AB :
        \E c \in (IF isSnare THEN SnareLogic(ab.brain, t) ELSE {ab.brain}) :
        \E d \in (IF isCut THEN BurstCut(c, t) ELSE {c}) :
            /\ brain' = d
            /\ brainState' = ab.hud
            /\ fired' = [beat |-> isBeatHit, idle |-> isIdle,
                         snare |-> isSnare, burst |-> isCut,
                         roll |-> c.burstModeUntil # ab.brain.burstModeUntil,
                         moved |-> ab.moved, dir |-> ab.dir,
                         pool |-> ab.pool, pick |-> ab.pick,
                         impulse |-> ab.impulse,
                         zoomTarget |-> ZoomTarget(d.transitionMode)]

\* animate: one frame, dt ms after the last one.  The analysis delivers
\* any of AudioLevels while playing; bass, mid and high stay 0 otherwise.
DirectorTick ==
    /\ mounted /\ requestRef
    /\ frameCount < MaxFrames
    /\ frameCount' = frameCount + 1
    /\ \E dt \in Steps :
       \E lv \in (IF isPlaying THEN AudioLevels ELSE {Silence}) :
         /\ lastFrameTime' = lastFrameTime + dt
         /\ heard' = lv
         /\ IF BrainEnabled
            THEN Choreograph(lastFrameTime + dt, lv)
            ELSE /\ fired' = [NoEvents EXCEPT
                                !.zoomTarget = ZoomTarget(brain.transitionMode)]
                 /\ UNCHANGED <<brain, brainState>>
    /\ tearAmount' = IF superCamActive THEN TearDecay(tearAmount)
                                       ELSE tearAmount
    /\ requestRef' = TRUE
    /\ lastTick' = [source |-> AnalysisSource, playing |-> isPlaying,
                    file |-> audioPreviewUrl, mic |-> isMicActive]
    /\ UNCHANGED <<mounted, audioPreviewUrl, isPlaying, isMicActive, audioCtx,
                   analyserToSink, audioRef, audios, micStreamRef, streams,
                   pendingCaptures, alerts>>
    /\ UNCHANGED <<framesByEnergy, closeupFrames, stutterChance,
                   superCamActive>>
    /\ UNCHANGED notPreview

\* The camera button: setSuperCamActive(!superCamActive)
ToggleSuperCam ==
    /\ mounted
    /\ superCamActive' = ~superCamActive
    /\ UNCHANGED <<lastFrameTime, frameCount, framesByEnergy, closeupFrames,
                   stutterChance, brain, brainState, heard, fired,
                   tearAmount>>
    /\ UNCHANGED audioVars
    /\ UNCHANGED notPreview

-----------------------------------------------------------------------------
(* The frame set of Step4Preview: the "Initialize" effect that seeds the   *)
(* visualizer, sorts the frames into pools and loads their images; the     *)
(* image callbacks; the bitmap lookup of renderFrame; the export.          *)

\* The longest frame list, and how many times the effect starts loading.
MaxListLen  == 2
MaxInstalls == 2

\* The catalog of the styles is not in the source.  Two entries stand for
\* it: one with a visualizer configuration and one without ("undefined").
STYLE_PRESETS == << [id |-> "neon",  hologramParams |-> "neonParams"],
                    [id |-> "plain", hologramParams |-> "undefined"] >>

\* The ids a project can hold: those of the catalog and one it has lost.
StyleIds == {"neon", "plain", "gone"}

\* STYLE_PRESETS.find(s => s.id === id): the index of the first match,
\* 0 for undefined
find(presets, id) ==
    LET hits == {k \in 1..Len(presets) : presets[k].id = id}
    IN  IF hits = {} THEN 0 ELSE Min(hits)

\* ParamsOrEmpty without the optional chaining: style.hologramParams || {}
ParamsOrEmptyUnchained(style) ==
    IF style = 0 THEN "TypeError"
    ELSE IF STYLE_PRESETS[style].hologramParams = "undefined" THEN "{}"
    ELSE STYLE_PRESETS[style].hologramParams

\* style?.hologramParams || {}
ParamsOrEmpty(style) ==
    IF style = 0 THEN "{}"
    ELSE IF STYLE_PRESETS[style].hologramParams = "undefined" THEN "{}"
    ELSE STYLE_PRESETS[style].hologramParams

\* The params of a visualizer just constructed: its built-in "default",
\* replaced by a copy of the style's when the style has them.
SeededParams(style) ==
    IF style # 0 /\ STYLE_PRESETS[style].hologramParams # "undefined"
    THEN STYLE_PRESETS[style].hologramParams
    ELSE "default"

\* Every frame list of up to MaxListLen frames, of any energies and types;
\* the k-th frame is named as the base sheet names its frames.
FrameLists ==
    UNION { { [k \in 1..n |-> [pose   |-> "base_" \o ToString(k - 1),
                               energy |-> kinds[k][1],
                               type   |-> kinds[k][2]]] :
                kinds \in [1..n -> EnergyLevel \X {"body", "closeup"}] } :
            n \in 0..MaxListLen }

\* The frame lists a generation run delivers, cut to MaxListLen frames:
\* the first frames of the base sheet.
SheetLists ==
    { [k \in 1..n |->
          [pose   |-> PoseName("base", k - 1, "CHARACTER", (k - 1) \div cols),
           energy |-> EnergyOfRow((k - 1) \div cols),
           type   |-> "body"]] : n \in 0..MaxListLen }

BaseFrame == [pose |-> "base", energy |-> "low", type |-> "body"]

\* const framesToLoad = generatedFrames.length > 0 ? ... : (preview ? [base] : [])
FramesToLoad(frames, preview) ==
    IF frames # <<>> THEN frames
    ELSE IF preview THEN <<BaseFrame>> ELSE <<>>

NoMap    == [run |-> 0, loaded |-> {}]
NoExport == [frames |-> <<>>, params |-> "none"]
NoDraw   == [pose |-> "", img |-> ""]

\* The component as first rendered, before its effects have run.
AssetInit ==
    /\ generatedFrames \in FrameLists
    /\ imagePreviewUrl \in BOOLEAN
    /\ selectedStyleId \in StyleIds
    /\ effectDue = TRUE
    /\ loads = <<>>
    /\ poseImages = NoMap
    /\ imagesReady = FALSE
    /\ hologram = "none"
    /\ exported = NoExport
    /\ drawn = NoDraw

\* The body of the effect for the frame list frames: "Init Visualizer"
\* (the constructor may throw, which is caught), "Sort Frames" and
\* "Load Images".  A run that loads images adds an entry to loads: its
\* poses, which of them have reported, and its newMap.
RunEffect(frames) ==
    /\ LET style == find(STYLE_PRESETS, selectedStyleId)
       IN  IF hologram = "none"
           THEN hologram' \in {"none", SeededParams(style)}
           ELSE hologram' = hologram
    /\ LET framesToLoad == FramesToLoad(frames, imagePreviewUrl)
           sorted       == SortFrames(framesToLoad)
       IN  /\ framesByEnergy' = [e \in EnergyLevel |-> sorted[e]]
           /\ closeupFrames' = sorted.closeups
           /\ IF framesToLoad = <<>>
              THEN /\ imagesReady' = TRUE
                   /\ UNCHANGED loads
              ELSE /\ loads' = Append(loads,
                         [poses    |-> [k \in 1..Len(framesToLoad) |->
                                           framesToLoad[k].pose],
                          reported |-> {},
                          newMap   |-> {}])
                   /\ UNCHANGED imagesReady
    /\ UNCHANGED <<imagePreviewUrl, selectedStyleId, poseImages, exported,
                   drawn>>
    /\ UNCHANGED <<lastFrameTime, frameCount, stutterChance, superCamActive,
                   brain, brainState, heard, fired, tearAmount>>
    /\ UNCHANGED audioVars
    /\ UNCHANGED notService

\* The effect's run after the first render.
InitEffect ==
    /\ mounted /\ effectDue
    /\ effectDue' = FALSE
    /\ RunEffect(generatedFrames)
    /\ UNCHANGED generatedFrames

\* The App replaces state.generatedFrames by the list of a new generation
\* run: the component renders again and the effect runs for the new list.
\* Nothing resets imagesReady or poseImagesRef, and the loads of the
\* earlier runs go on.
FramesReplaced ==
    /\ mounted /\ ~effectDue
    /\ Len(loads) < MaxInstalls
    /\ \E frames \in SheetLists :
         /\ generatedFrames' = frames
         /\ RunEffect(frames)
    /\ UNCHANGED effectDue

\* img.onload (ok) and img.onerror of frame k of a run of the effect
LoadReport(run, k, ok) ==
    LET l        == loads[run]
        newMap   == IF ok THEN l.newMap \cup {k} ELSE l.newMap
        reported == l.reported \cup {k}
    IN  /\ k \notin l.reported
        /\ loads' = [loads EXCEPT ![run] = [l EXCEPT !.reported = reported,
                                                     !.newMap = newMap]]
        /\ IF Cardinality(reported) = Len(l.poses)
           THEN /\ poseImages' = [run |-> run, loaded |-> newMap]
                /\ imagesReady' = (mounted \/ imagesReady)
           ELSE UNCHANGED <<poseImages, imagesReady>>
        /\ UNCHANGED <<generatedFrames, imagePreviewUrl, selectedStyleId,
                       effectDue, hologram, exported, drawn>>
        /\ UNCHANGED <<audioVars, dirVars>>
        /\ UNCHANGED notService

ImageLoaded ==
    \E run \in 1..Len(loads) :
    \E k \in 1..Len(loads[run].poses) : LoadReport(run, k, TRUE)

ImageFailed ==
    \E run \in 1..Len(loads) :
    \E k \in 1..Len(loads[run].poses) : LoadReport(run, k, FALSE)

\* poseImagesRef.current[pose] is a bitmap
HasBitmap(pose) ==
    /\ poseImages.run # 0
    /\ \E k \in poseImages.loaded : loads[poseImages.run].poses[k] = pose

\* const img = poseImagesRef.current[pose] || poseImagesRef.current['base']:
\* the pose whose bitmap is drawn, "" when img is undefined
BitmapFor(pose) ==
    IF HasBitmap(pose) THEN pose
    ELSE IF HasBitmap("base") THEN "base"
    ELSE ""

\* animate while paused, as the frame set sees it: the brain is left alone
\* and renderFrame is called for the target pose, and for the previous
\* pose while a transition is in progress.
RenderTick ==
    /\ mounted /\ requestRef /\ ~isPlaying
    /\ \E pose \in {brain.targetPose, brain.previousPose} :
         drawn' = [pose |-> pose, img |-> BitmapFor(pose)]
    /\ UNCHANGED <<generatedFrames, imagePreviewUrl, selectedStyleId,
                   effectDue, loads, poseImages, imagesReady, hologram,
                   exported>>
    /\ UNCHANGED <<audioVars, dirVars>>
    /\ UNCHANGED notService

\* handleExportPlayer, up to the call of generatePlayerHTML
ExportPlayer ==
    /\ mounted
    /\ LET style == find(STYLE_PRESETS, selectedStyleId)
           framesToExport == IF generatedFrames # <<>> THEN generatedFrames
                             ELSE <<BaseFrame>>
       IN  exported' = [frames |-> [k \in 1..Len(framesToExport) |->
                                       framesToExport[k].pose],
                        params |-> ParamsOrEmpty(style)]
    /\ UNCHANGED <<generatedFrames, imagePreviewUrl, selectedStyleId,
                   effectDue, loads, poseImages, imagesReady, hologram,
                   drawn>>
    /\ UNCHANGED <<audioVars, dirVars>>
    /\ UNCHANGED notService

-----------------------------------------------------------------------------
(* Specifications.  Each runs one part of the service; the state of the    *)
(* other parts stays as constructed.                                       *)

GenIdle ==
    /\ useTurbo = FALSE /\ superMode = FALSE
    /\ explicitCategory = "NONE" /\ motionPrompt = ""
    /\ category = "CHARACTER" /\ pc = "idle"
    /\ sheet = [r \in SheetRole |-> NoCall]
    /\ calls = <<>> /\ allFrames = <<>> /\ error = ""

SliceIdle == sliceIn = <<0, 0>> /\ slicePc = "idle" /\ sliceOut = <<>>

EncIdle ==
    /\ file = [valid |-> FALSE, w |-> 0, h |-> 0]
    /\ encPc = "idle"
    /\ encOut = [kind |-> "none", w |-> 0, h |-> 0]
    /\ encTrace = <<>>

\* The Preview before it is mounted.
AudioIdle ==
    /\ mounted = FALSE /\ audioPreviewUrl = 0
    /\ isPlaying = FALSE /\ isMicActive = FALSE
    /\ audioCtx = "none" /\ analyserToSink = FALSE
    /\ audioRef = NoPlayer /\ audios = 0
    /\ micStreamRef = 0 /\ streams = <<>>
    /\ pendingCaptures = 0 /\ alerts = 0
    /\ requestRef = FALSE
    /\ lastTick = NoTick

\* The director before any frame set is installed.
DirectorIdle ==
    /\ lastFrameTime = 0 /\ frameCount = 0
    /\ framesByEnergy = [e \in EnergyLevel |-> <<>>]
    /\ closeupFrames = <<>>
    /\ stutterChance = 0
    /\ superCamActive = TRUE
    /\ brain = [lastSwitchTime |-> 0, lastBeatTime |-> 0,
                lastSnareTime |-> 0, beatCounter |-> 0,
                targetPose |-> "base", previousPose |-> "base",
                transitionStart |-> 0,
                transitionDuration |-> InitialDuration,
                transitionMode |-> "CUT", burstModeUntil |-> 0,
                lastMoveDirection |-> "right"]
    /\ brainState = [intention |-> "IDLE", nextDir |-> "LEFT",
                     confidence |-> 0, activePoseName |-> "BASE"]
    /\ heard = Silence
    /\ fired = NoEvents
    /\ tearAmount = 0

\* No frame set, no style and no effect run.
AssetIdle ==
    /\ generatedFrames = <<>> /\ imagePreviewUrl = FALSE
    /\ selectedStyleId = "" /\ effectDue = FALSE
    /\ loads = <<>> /\ poseImages = NoMap /\ imagesReady = FALSE
    /\ hologram = "none" /\ exported = NoExport /\ drawn = NoDraw

PreviewIdle == AudioIdle /\ DirectorIdle /\ AssetIdle

\* generateDanceFrames of src/unnamed/part_001
Init == GenInit /\ SliceIdle /\ EncIdle /\ PreviewIdle

Next ==
    \/ Start
    \/ \E role \in SheetRole : ApiRespond(role)
    \/ \E role \in SheetRole : SliceSettle(role)
    \/ \E role \in SheetRole : ProcessSettle(role)
    \/ BaseReturned
    \/ ExpansionReturned

Spec == Init /\ [][Next]_vars

\* generateDanceFrames of src/services/gemini.ts
LegacyNext ==
    \/ LegacyStart
    \/ \E role \in SheetRole : ApiRespond(role)
    \/ \E role \in SheetRole : SliceSettle(role)
    \/ \E role \in SheetRole : ProcessSettle(role)
    \/ LegacyReturned

SpecLegacy == Init /\ [][LegacyNext]_vars

\* sliceSpriteSheet
SliceSpecInit == GenIdle /\ SliceInit /\ EncIdle /\ PreviewIdle

SliceNext ==
    \/ SliceOnLoad
    \/ SliceOnError

SpecSlice == SliceSpecInit /\ [][SliceNext]_vars

\* fileToGenericBase64
EncSpecInit == GenIdle /\ SliceIdle /\ EncInit /\ PreviewIdle

EncNext ==
    \/ EncStart
    \/ EncOnLoad
    \/ EncOnError
    \/ EncRead

SpecEncode == EncSpecInit /\ [][EncNext]_vars

\* The audio engine of Step4Preview
AudioSpecInit ==
    /\ GenIdle /\ SliceIdle /\ EncIdle
    /\ AudioInit /\ DirectorIdle /\ AssetIdle

AudioNext ==
    \/ TogglePlay
    \/ ToggleMic
    \/ CaptureGranted
    \/ CaptureDenied
    \/ AudioFileChanged
    \/ AudioTick
    \/ Teardown

SpecAudio == AudioSpecInit /\ [][AudioNext]_vars

\* The director of Step4Preview, played and paused with no audio file
DirectorSpecInit ==
    /\ GenIdle /\ SliceIdle /\ EncIdle
    /\ AudioInit /\ audioPreviewUrl = 0
    /\ DirectorInit /\ AssetIdle

DirectorNext ==
    \/ TogglePlay
    \/ ToggleSuperCam
    \/ DirectorTick

SpecDirector == DirectorSpecInit /\ [][DirectorNext]_vars

\* The first render of Step4Preview with any frame list and any style:
\* the effect, the loads it starts, and the export
MountSpecInit ==
    /\ GenIdle /\ SliceIdle /\ EncIdle
    /\ AudioInit /\ audioPreviewUrl = 0
    /\ DirectorIdle /\ AssetInit

MountNext ==
    \/ InitEffect
    \/ ImageLoaded
    \/ ImageFailed
    \/ ExportPlayer

SpecMount == MountSpecInit /\ [][MountNext]_vars

\* Step4Preview, paused, over the frame lists of successive generation
\* runs: the effect, the replacements, the loads, and the frames drawn
AssetSpecInit ==
    /\ MountSpecInit
    /\ generatedFrames \in SheetLists
    /\ selectedStyleId = "neon"

AssetNext ==
    \/ InitEffect
    \/ FramesReplaced
    \/ ImageLoaded
    \/ ImageFailed
    \/ RenderTick

SpecAssets == AssetSpecInit /\ [][AssetNext]_vars

-----------------------------------------------------------------------------
(* Properties of generateDanceFrames (src/unnamed/part_001), under Spec.   *)

CallRoles == [k \in 1..Len(calls) |-> calls[k].role]

IsPrefix(a, b) == Len(a) <= Len(b) /\ SubSeq(b, 1, Len(a)) = a

\* The base sheet call has returned with frames and a sheet image.
BaseSucceeded ==
    /\ sheet["base"].status = "done"
    /\ Len(sheet["base"].frames) > 0
    /\ sheet["base"].sheetImage

\* The base sheet call has returned with zero frames or no sheet image.
BaseCameBackEmpty ==
    /\ sheet["base"].status = "done"
    /\ (Len(sheet["base"].frames) = 0 \/ ~sheet["base"].sheetImage)

PastBaseAwait == pc \in {"awaitExpansion", "returned", "failed"}

\* C1: once the base sheet has succeeded and the call has gone past it, the
\* sheet calls issued are exactly base, alt when turbo and super are off, and
\* exactly base, alt, flourish when super is on and turbo off; at no time has
\* any call outside that list been issued.
C1_SheetCallsPerMode ==
    /\ (~useTurbo /\ ~superMode) =>
          /\ IsPrefix(CallRoles, <<"base", "alt">>)
          /\ (BaseSucceeded /\ PastBaseAwait) => CallRoles = <<"base", "alt">>
    /\ (~useTurbo /\ superMode) =>
          /\ IsPrefix(CallRoles, <<"base", "alt", "flourish">>)
          /\ (BaseSucceeded /\ PastBaseAwait) =>
                CallRoles = <<"base", "alt", "flourish">>

C1_Witness ==
    /\ pc = "returned" /\ ~useTurbo /\ superMode
    /\ CallRoles = <<"base", "alt", "flourish">>

C1_WitnessQuality ==
    /\ pc = "returned" /\ ~useTurbo /\ ~superMode
    /\ CallRoles = <<"base", "alt">>

\* C2: whenever the turbo flag is set, only the base sheet call is ever
\* issued, whatever the super flag.
C2_TurboIssuesBaseOnly ==
    useTurbo => IsPrefix(CallRoles, <<"base">>)

\* C3: if the base sheet call yields zero frames or no sheet image, the call
\* never returns frames, it fails with "Base generation failed." in every
\* mode, and the base request is the only request ever issued.
C3_BaseFailureIsFatal ==
    BaseCameBackEmpty =>
        /\ pc \in {"awaitBase", "failed"}
        /\ pc = "failed" => error = "Base generation failed."
        /\ calls = <<Request("base", FALSE)>>
        /\ sheet["alt"].status = "none"
        /\ sheet["flourish"].status = "none"

C3_Witness ==
    /\ pc = "failed" /\ superMode /\ ~useTurbo
    /\ sheet["base"].reason = "Canvas context failed"

\* C5: an alt or flourish request exists only after the base call has
\* returned successfully; each carries the base sheet as style reference and
\* the base request carries none; in super mode the two expansion requests
\* are issued together, so the call awaits neither before both are out.
C5_BaseSerializedExpansionParallel ==
    /\ \A r \in {"alt", "flourish"} :
          sheet[r].status # "none" => BaseSucceeded /\ sheet[r].ref
    /\ sheet["base"].status # "none" => ~sheet["base"].ref
    /\ \A k \in 1..Len(calls) : calls[k].ref = (calls[k].role # "base")
    /\ superMode =>
          /\ (sheet["alt"].status # "none") = (sheet["flourish"].status # "none")
          /\ pc = "awaitExpansion" =>
                sheet["alt"].status # "none" /\ sheet["flourish"].status # "none"

C5_Witness ==
    /\ superMode /\ pc = "awaitExpansion"
    /\ sheet["alt"].status = "requested"
    /\ sheet["flourish"].status = "slicing"

\* C6: an alt or flourish sheet call that fails (transport error, no
\* candidate, no payload, slicing failure) ends with zero frames and raises
\* nothing: with a successful base the call never fails, and what it returns
\* is the base frames, then the alt frames, then the flourish frames, a failed
\* sheet adding none.
C6_ExpansionFailureAbsorbed ==
    /\ \A r \in {"alt", "flourish"} :
          sheet[r].reason # "" =>
              sheet[r].status = "done" /\ sheet[r].frames = <<>>
    /\ BaseSucceeded => pc # "failed"
    /\ pc = "returned" =>
          /\ error = ""
          /\ allFrames = sheet["base"].frames \o sheet["alt"].frames
                            \o sheet["flourish"].frames

C6_Witness ==
    /\ pc = "returned" /\ superMode
    /\ sheet["alt"].reason = "transport error"
    /\ Len(sheet["flourish"].frames) > 0
    /\ allFrames = sheet["base"].frames \o sheet["flourish"].frames

\* C34: every mirror-frame call eventually completes, with the mirrored or
\* the original image, whatever the image decoding and the drawing-surface
\* acquisition do, so a single-sheet generation whose remote call has
\* returned always eventually returns: no sheet is ever left waiting on a
\* mirror-frame promise that no callback can settle (status hung, which no
\* step leaves).
C34_NoSheetHangs ==
    \A role \in SheetRole : sheet[role].status # "hung"

\* The place of a sheet in the returned list, and whether a frame is the
\* mirrored duplicate of another (its pose carries the mirror suffix).
RoleRank(role) ==
    CASE role = "base" -> 1 [] role = "alt" -> 2 [] role = "flourish" -> 3

IsDuplicate(f) == includes(f.pose, "mirror")

\* Frame b may directly follow frame a: a later sheet, or the same sheet
\* and a later grid cell, or the mirrored duplicate of a itself.
MayFollow(a, b) ==
    IF IsDuplicate(b)
    THEN /\ ~IsDuplicate(a)
         /\ a.role = b.role /\ a.url.index = b.url.index
    ELSE \/ RoleRank(a.role) < RoleRank(b.role)
         \/ a.role = b.role /\ a.url.index < b.url.index

\* C37: the frame list generateDanceFrames returns is the base frames, then
\* the alt frames, then the flourish frames, each sheet's frames in
\* grid-index order with every mirrored duplicate immediately after its
\* source, in whatever order the sheet requests completed.
C37_ReturnedFramesOrdered ==
    pc = "returned" =>
        /\ ~IsDuplicate(allFrames[1])
        /\ \A k \in 1..(Len(allFrames) - 1) :
              MayFollow(allFrames[k], allFrames[k + 1])

\* A returned list of three sheets with mirrored duplicates in each.
C37_Witness ==
    /\ pc = "returned" /\ superMode /\ category = "CHARACTER"
    /\ \A r \in SheetRole :
          \E k \in 1..Len(allFrames) :
              allFrames[k].role = r /\ IsDuplicate(allFrames[k])

\* The flourish sheet has returned while the alt request is still out.
C37_WitnessFlourishFirst ==
    /\ pc = "awaitExpansion"
    /\ sheet["flourish"].status = "done" /\ Len(sheet["flourish"].frames) > 0
    /\ sheet["alt"].status = "requested"

-----------------------------------------------------------------------------
(* Properties of generateDanceFrames (src/services/gemini.ts), under       *)
(* SpecLegacy.                                                             *)

\* C4: the base sheet is awaited before any other sheet is requested, and a
\* base sheet with zero frames fails the call in every mode.
C4_LegacyBaseMandatory ==
    /\ sheet["alt"].status # "none" =>
          sheet["base"].status = "done" /\ Len(sheet["base"].frames) > 0
    /\ (sheet["base"].status = "done" /\ Len(sheet["base"].frames) = 0) =>
          pc # "returned"

-----------------------------------------------------------------------------
(* Properties of the frames of one sheet, under Spec.                      *)

FramesOfCell(F, i) == {k \in 1..Len(F) : F[k].url.index = i}

\* The pose names as the specification words them.
DirectedPose(role, i) ==
    role \o "_" \o ToString(i) \o (IF i \div 4 = 1 THEN "_left" ELSE "_right")

MirroredPose(role, i) ==
    role \o "_" \o ToString(i)
         \o (IF i \div 4 = 1 THEN "_right_mirror" ELSE "_left_mirror")

C8_RowEnergyAndCloseup ==
    \A r \in SheetRole :
      \A k \in 1..Len(sheet[r].frames) :
        LET f == sheet[r].frames[k]
            i == f.url.index
        IN  /\ i \in 0..15
            /\ f.energy = CASE i \div 4 = 0 -> "low"
                            [] i \div 4 = 1 -> "mid"
                            [] i \div 4 = 2 -> "mid"
                            [] i \div 4 = 3 -> "high"
            /\ f.type \in FrameType
            /\ f.type = "closeup" => (category = "CHARACTER" /\ i \div 4 = 3)

C8_Witness ==
    /\ \E k \in 1..Len(sheet["alt"].frames) :
          /\ sheet["alt"].frames[k].type = "closeup"
          /\ sheet["alt"].frames[k].energy = "high"
    /\ \E k \in 1..Len(sheet["alt"].frames) :
          /\ sheet["alt"].frames[k].url.index = 15
          /\ sheet["alt"].frames[k].type = "body"

C8_WitnessText ==
    /\ category = "TEXT"
    /\ Len(sheet["base"].frames) = 16
    /\ sheet["base"].frames[16].energy = "high"

-----------------------------------------------------------------------------
(* Properties of sliceSpriteSheet, under SpecSlice.                        *)

Abs(x) == IF x < 0 THEN -x ELSE x

\* C9: slicing a square sheet of edge e resolves with exactly 16 crops in
\* row-major order (crop number r*4 + c lies inside grid cell (r, c)), each
\* canvas within 1 px of 0.84 * (e / 4) on both axes.
C9_SliceSquareSheet ==
    (slicePc = "resolved" /\ sliceIn[1] = sliceIn[2]) =>
        LET e == sliceIn[1]
        IN  /\ Len(sliceOut) = 16
            /\ \A r \in 0..3, c \in 0..3 :
                 LET f == sliceOut[r * 4 + c + 1]
                 IN  /\ c * 25 * e <= f.sx /\ f.sx + f.sw <= (c + 1) * 25 * e
                     /\ r * 25 * e <= f.sy /\ f.sy + f.sh <= (r + 1) * 25 * e
                     /\ Abs(100 * f.cw - 21 * e) <= 100
                     /\ Abs(100 * f.ch - 21 * e) <= 100

C9_Witness ==
    /\ slicePc = "resolved"
    /\ sliceIn = <<50, 50>>
    /\ Len(sliceOut) = 16
    /\ sliceOut[7].cw = 10 /\ sliceOut[7].ch = 10
    /\ sliceOut[7].sx = 2600 /\ sliceOut[7].sy = 1350

-----------------------------------------------------------------------------
(* Properties of fileToGenericBase64, under SpecEncode.                    *)

MaxOf(a, b) == IF a > b THEN a ELSE b

\* The shorter side is within 1 px of the longer side's scaling.
AspectKept(w, h, ow, oh) ==
    IF w > h THEN Abs(oh * w - h * ow) <= w
             ELSE Abs(ow * h - w * oh) <= h

\* C10 as stated: whatever the source size, the returned image has its
\* longer side at most 384 px with the aspect ratio kept within rounding, and
\* a source within 384 px on both sides is not enlarged.
C10_ReturnedWithinMaxDim ==
    encPc = "returned" =>
        /\ MaxOf(encOut.w, encOut.h) <= MaxDim
        /\ AspectKept(file.w, file.h, encOut.w, encOut.h)
        /\ (file.w <= MaxDim /\ file.h <= MaxDim) =>
              (encOut.w = file.w /\ encOut.h = file.h)

\* C10 (amended): when the resize path completes, the returned image has its
\* longer side at most 384 px, exactly 384 when the source's longer side
\* exceeds it, the shorter side within 1 px of the same scaling, and a source
\* within 384 px on both sides keeps its size; on the fallback path the
\* original file is returned at its own size.
C10_ResizedWithinMaxDim ==
    encPc = "returned" =>
        IF encOut.kind = "resized"
        THEN /\ MaxOf(encOut.w, encOut.h) <= MaxDim
             /\ MaxOf(file.w, file.h) > MaxDim =>
                   MaxOf(encOut.w, encOut.h) = MaxDim
             /\ AspectKept(file.w, file.h, encOut.w, encOut.h)
             /\ (file.w <= MaxDim /\ file.h <= MaxDim) =>
                   (encOut.w = file.w /\ encOut.h = file.h)
        ELSE /\ encOut.kind = "original"
             /\ encOut.w = file.w /\ encOut.h = file.h

C10_Witness ==
    /\ encPc = "returned" /\ encOut.kind = "resized"
    /\ file.w = 483 /\ file.h = 161
    /\ encOut.w = 384 /\ encOut.h = 127

\* The steps of resizeImage that can fail: URL.createObjectURL, the image
\* decode, getContext('2d'), and drawImage / toDataURL.
ResizeFailures == {"urlThrew", "decodeError", "noContext", "drawThrew"}

Met(events) == \E k \in 1..Len(encTrace) : encTrace[k] \in events

\* C11: the encoding fails only after a read of the original file has failed
\* and none has succeeded; and once a step of the resize path has failed, the
\* call ends with the original file's own encoding if a read of the file
\* succeeds, and fails otherwise: it never ends with a resized encoding.
C11_FailsOnlyWhenReadFails ==
    /\ encPc = "failed" =>
          /\ encTrace # <<>>
          /\ encTrace[Len(encTrace)] = "readFailed"
          /\ ~Met({"readOk"})
    /\ (encPc \in {"returned", "failed"} /\ Met(ResizeFailures)) =>
          IF Met({"readOk"})
          THEN /\ encPc = "returned"
               /\ encOut = [kind |-> "original", w |-> file.w, h |-> file.h]
          ELSE encPc = "failed"

\* The drawing throws, the first read of the file fails, the second succeeds.
C11_Witness ==
    /\ encPc = "returned"
    /\ encTrace = <<"drawThrew", "readFailed", "readOk">>
    /\ encOut.kind = "original"

C11_WitnessFailed ==
    /\ encPc = "failed"
    /\ encTrace = <<"decodeError", "readFailed", "readFailed">>

-----------------------------------------------------------------------------
(* Properties of the audio engine of Step4Preview, under SpecAudio.        *)

Live(id)      == streams[id] = "live"
PlayerPlaying == audioRef.exists /\ audioRef.playing

\* C15: on every tick where the Preview is playing with no audio file and
\* the microphone inactive, bass, mid and high come from the 124 BPM
\* fallback clock and not from the analysis node.
C15_FallbackClockWhenNoSource ==
    (lastTick.playing /\ lastTick.file = 0 /\ ~lastTick.mic) =>
        lastTick.source = "clock"

\* C16: while the Preview is mounted, a capture grant leaves the file player
\* paused and playing true; a step that turns the microphone off stops the
\* held stream, clears the stream reference and leaves the microphone
\* inactive; and the file player never plays while the microphone is active.
C16_MicAndPlayerExclusive ==
    [][ /\ (mounted' /\ Len(streams') > Len(streams)) =>
              /\ isMicActive' /\ isPlaying'
              /\ micStreamRef' = Len(streams')
              /\ audioRef'.exists = audioRef.exists
              /\ ~audioRef'.playing
        /\ (mounted' /\ isMicActive /\ ~isMicActive') =>
              /\ micStreamRef' = 0
              /\ micStreamRef # 0 => streams'[micStreamRef] = "stopped"
        /\ (mounted' /\ isMicActive') => ~PlayerPlaying'
      ]_vars

\* The microphone was granted while the player of file 1 was playing.
C16_Witness ==
    /\ mounted /\ isMicActive /\ isPlaying
    /\ audioRef.exists /\ ~audioRef.playing
    /\ micStreamRef = 1 /\ Live(1)

\* The microphone was granted twice and then turned off.
C16_WitnessOff ==
    /\ mounted /\ ~isMicActive /\ micStreamRef = 0
    /\ Len(streams) = 2 /\ ~Live(2)

\* C17: every change of the audio file discards the file player and sets
\* playing to false, whether or not the microphone is active; a player that
\* exists is a player for the current file, so that the next playback of a
\* file starts on a new player for the new file.
C17_FileChangeDiscardsPlayer ==
    [][ /\ audioPreviewUrl' # audioPreviewUrl =>
              audioRef' = NoPlayer /\ ~isPlaying'
        /\ audioRef'.exists => audioRef'.src = audioPreviewUrl'
        /\ (audioRef'.exists /\ ~audioRef.exists) =>
              /\ audios' = audios + 1
              /\ audioRef'.playing = isPlaying'
      ]_vars

\* File 1 had a player, the file changed after a capture was granted, and
\* file 2 now plays on a second player.
C17_Witness ==
    /\ audioPreviewUrl = 2 /\ audios = 2
    /\ audioRef = [exists |-> TRUE, src |-> 2, playing |-> TRUE]
    /\ streams # <<>>

C17_WitnessMic ==
    /\ audioPreviewUrl = 2 /\ audios = 1 /\ audioRef = NoPlayer
    /\ isMicActive /\ ~isPlaying /\ micStreamRef # 0

\* C18: the step that raises the alert of a denied capture leaves the
\* microphone flag, the playing flag, the held stream and every granted
\* stream, and the file player with its playing status, as they were.
C18_DenialChangesNothing ==
    [][ alerts' # alerts =>
          /\ alerts' = alerts + 1
          /\ UNCHANGED <<isMicActive, isPlaying, micStreamRef, streams,
                         audioRef, audios>>
      ]_vars

\* A capture was denied while the file player was playing.
C18_Witness ==
    /\ alerts = 1 /\ streams = <<>>
    /\ PlayerPlaying /\ isPlaying /\ ~isMicActive

\* C19: every granted capture stream other than the held one is stopped.
C19_OneLiveStream ==
    \A id \in 1..Len(streams) : id # micStreamRef => ~Live(id)

\* C20: after teardown no capture stream is live, no animation callback is
\* pending and the audio context, if one was made, is closed.
C20_TeardownReleasesAll ==
    ~mounted =>
        /\ \A id \in 1..Len(streams) : ~Live(id)
        /\ ~requestRef
        /\ audioCtx \in {"none", "closed"}

\* C33: after any sequence of play/pause and microphone toggles, whenever
\* the file player is playing, the analysis node is connected to the output
\* sink (the file is routed source -> analysis -> sink).
C33_PlayingFileReachesSink ==
    PlayerPlaying => analyserToSink

\* C36: whenever the microphone is inactive and a file player exists, the
\* playing flag is true exactly when the file player is playing.
C36_PlayingFlagMatchesPlayer ==
    (~isMicActive /\ audioRef.exists) => (isPlaying <=> audioRef.playing)

-----------------------------------------------------------------------------
(* Properties of the director of Step4Preview, under SpecDirector.         *)

\* A step that animates one frame.
FrameStep == frameCount' = frameCount + 1

\* The pose lock that applies to a frame at time t, and whether it has
\* elapsed since the last switch.
LockAt(t)      == IF t < brain.burstModeUntil THEN 60 ELSE 150
LockElapsed(t) == t - brain.lastSwitchTime > LockAt(t)

CrossedUp == heard.bass <= 35 /\ heard'.bass > 35

PoolMembers(pool) == {pool[k] : k \in 1..Len(pool)}

\* C12 as stated: a frame registers a beat hit exactly when the Preview is
\* playing, bass has crossed 0.35 upwards since the frame before, and the
\* lock window has elapsed; bass that stays above 0.35 registers no hit.
C12_OneSwitchPerCrossing ==
    [][ FrameStep =>
          (fired'.beat <=>
              (isPlaying /\ CrossedUp /\ LockElapsed(lastFrameTime')))
      ]_vars

\* C12: a frame registers a beat hit exactly when the Preview is playing,
\* bass is above 0.35 and more than the lock window (150 ms, 60 ms in burst)
\* has passed since the last switch, whether bass has just crossed 0.35 or
\* has stayed above it; a hit is registered once (the bar counter advances
\* by one, the last-beat and last-switch times become the frame's time) and
\* a frame without a hit leaves the last-beat time and the bar counter.
C12_BeatHitWhenAboveAndUnlocked ==
    [][ FrameStep =>
          /\ fired'.beat <=>
                (isPlaying /\ heard'.bass > 35
                           /\ LockElapsed(lastFrameTime'))
          /\ fired'.beat =>
                /\ brain'.lastBeatTime = lastFrameTime'
                /\ brain'.lastSwitchTime = lastFrameTime'
                /\ brain'.beatCounter = (brain.beatCounter + 1) % 4
          /\ ~fired'.beat =>
                /\ brain'.lastBeatTime = brain.lastBeatTime
                /\ brain'.beatCounter = brain.beatCounter
      ]_vars

\* Two frames, each a beat hit: bass was above 0.35 on both, so the second
\* hit came without a crossing.
C12_Witness ==
    /\ frameCount = 2 /\ brain.beatCounter = 2
    /\ fired.beat /\ heard.bass > 35
    /\ brain.lastBeatTime = lastFrameTime

\* A hit 100 ms after the last switch, inside a burst.
C12_WitnessBurst ==
    /\ fired.beat /\ brain.beatCounter = 2
    /\ lastFrameTime < brain.burstModeUntil
    /\ brain.transitionStart = lastFrameTime - 100

Classified(isHardHit, isPatternCut) ==
    IF isHardHit \/ isPatternCut
    THEN brain.transitionMode = "CUT" /\ brain.transitionDuration = 0
    ELSE brain.transitionMode = "FLOW" /\ brain.transitionDuration = 240

BurstActive(t) == t < brain.burstModeUntil

C25_WitnessNoBurst ==
    /\ fired.beat /\ brain.burstModeUntil = 0
    /\ frameCount = 2 /\ lastFrameTime = 400 /\ brain.beatCounter = 2

\* C26: a frame triggers the snare (its time becomes the last-snare time,
\* with which the scanline intensity is set to 1.2) exactly when the Preview
\* is playing, mid > 0.6 and more than 800 ms have passed since the last
\* trigger, whether or not the pose lock has elapsed; so two triggers are
\* more than 800 ms apart.
C26_SnareThrottled ==
    [][ FrameStep =>
          /\ fired'.snare <=>
                (isPlaying /\ heard'.mid > 60
                           /\ lastFrameTime' - brain.lastSnareTime > 800)
          /\ fired'.snare =>
                /\ brain'.lastSnareTime = lastFrameTime'
                /\ brain'.lastSnareTime - brain.lastSnareTime > 800
          /\ ~fired'.snare => brain'.lastSnareTime = brain.lastSnareTime
      ]_vars

\* A snare triggered inside the pose lock, 100 ms after a beat hit, with
\* bass above the threshold.
C26_Witness ==
    /\ fired.snare /\ ~fired.beat /\ ~fired.burst
    /\ heard.bass = 80
    /\ brain.lastSwitchTime = lastFrameTime - 100

\* A second snare 1600 ms after the first, whose stutter roll had succeeded.
C26_WitnessSecond ==
    /\ fired.snare /\ ~fired.roll
    /\ lastFrameTime = 3200 /\ brain.burstModeUntil = 2000

\* C27: burst mode is active only on frames less than 400 ms after a snare
\* trigger whose stutter roll succeeded (the last trigger); it begins only
\* on a snare trigger, never while it is active, never when the stutter
\* chance is 0, and on every snare trigger when the stutter chance is 100.
C27_BurstWindow ==
    [][ FrameStep =>
          /\ BurstActive(lastFrameTime') =>
                /\ brain.burstModeUntil = brain.lastSnareTime + 400
                /\ lastFrameTime' - brain.lastSnareTime < 400
                /\ stutterChance > 0
          /\ brain'.burstModeUntil # brain.burstModeUntil =>
                /\ fired'.snare /\ fired'.roll
                /\ brain'.burstModeUntil = lastFrameTime' + 400
                /\ ~BurstActive(lastFrameTime')
                /\ stutterChance > 0
          /\ fired'.roll => brain'.burstModeUntil # brain.burstModeUntil
          /\ (fired'.snare /\ stutterChance = 100) => fired'.roll
      ]_vars

\* A frame in burst mode, 200 ms after the snare whose roll succeeded at a
\* stutter chance of 50.
C27_Witness ==
    /\ stutterChance = 50
    /\ fired.burst
    /\ lastFrameTime < brain.burstModeUntil
    /\ lastFrameTime - brain.lastSnareTime = 200

\* A snare at a stutter chance of 50 whose roll failed.
C27_WitnessNoRoll ==
    /\ stutterChance = 50
    /\ fired.snare /\ ~fired.roll /\ brain.burstModeUntil = 0

\* A snare at a stutter chance of 100 opened the burst.
C27_WitnessAlways ==
    /\ stutterChance = 100
    /\ fired.snare /\ fired.roll
    /\ brain.burstModeUntil = lastFrameTime + 400

\* The pool of the burst cut: high, or mid when high is empty
BurstPool ==
    IF framesByEnergy.high # <<>> THEN framesByEnergy.high
    ELSE framesByEnergy.mid

\* A frame that is playing, in burst mode, with the lock window elapsed
BurstCutDue ==
    /\ FrameStep /\ isPlaying
    /\ BurstActive(lastFrameTime') /\ LockElapsed(lastFrameTime')

\* The frame ends on a forced cut: CUT with duration 0, previous pose equal
\* to the target pose.
ForcedCut ==
    /\ brain.previousPose = brain.targetPose
    /\ brain.transitionMode = "CUT" /\ brain.transitionDuration = 0

\* C28 as stated: every playing frame in burst mode with the lock window
\* elapsed ends with the target pose drawn from the high pool (mid when
\* high is empty), the previous pose equal to it, and CUT with duration 0.
C28_BurstForcesCut ==
    [][ BurstCutDue =>
          /\ brain'.targetPose \in PoolMembers(BurstPool)
          /\ ForcedCut'
      ]_vars

\* C28: every playing frame in burst mode with the lock window elapsed sets
\* the last-switch time and, when the high pool (the mid pool when high is
\* empty) is not empty, ends with the target pose drawn from it, the
\* previous pose equal to it and CUT with duration 0, whatever a beat hit or
\* idle fallback chose in the same frame; when that pool is empty the frame
\* ends with the poses and transition the beat hit or idle fallback left.
C28_BurstForcesCutFromPool ==
    [][ BurstCutDue =>
          /\ fired'.burst
          /\ brain'.lastSwitchTime = lastFrameTime'
          /\ IF BurstPool # <<>>
             THEN /\ brain'.targetPose \in PoolMembers(BurstPool)
                  /\ ForcedCut'
             ELSE ~fired'.moved =>
                    /\ brain'.targetPose = brain.targetPose
                    /\ brain'.previousPose = brain.previousPose
                    /\ brain'.transitionMode = brain.transitionMode
                    /\ brain'.transitionDuration = brain.transitionDuration
      ]_vars

\* A burst cut replaced the pose a beat hit had moved to in the same frame.
C28_Witness ==
    /\ fired.burst /\ fired.beat /\ fired.moved
    /\ fired.pick # brain.targetPose
    /\ brain.targetPose = "base_12"
    /\ ForcedCut

\* A burst cut with no frames at all: the initial CUT of 100 ms stays.
C28_WitnessNoPool ==
    /\ fired.burst /\ framesByEnergy.high = <<>>
    /\ brain.lastSwitchTime = lastFrameTime
    /\ brain.transitionDuration = 100

\* The pool a beat hit selects when it does not take the closeups: high on
\* a hard hit (bass > 0.8) with mid as fallback, else mid with low as
\* fallback.
HitPool(bass) ==
    IF bass > 80
    THEN IF Len(framesByEnergy.high) > 0 THEN framesByEnergy.high
         ELSE framesByEnergy.mid
    ELSE IF Len(framesByEnergy.mid) > 0 THEN framesByEnergy.mid
         ELSE framesByEnergy.low

\* C29: on every beat hit the selected pool is the closeup pool, only when
\* mid > 0.6 or high > 0.6 and closeups exist, or else the pool by energy;
\* the picked pose is a member of the selected pool (none is picked when
\* that pool is empty), and its name contains the chosen direction whenever
\* the name of at least one member of the selected pool does.
C29_PickFromSelectedPool ==
    [][ (FrameStep /\ fired'.beat) =>
          /\ fired'.dir \in {"left", "right"}
          /\ \/ fired'.pool = HitPool(heard'.bass)
             \/ /\ fired'.pool = closeupFrames
                /\ closeupFrames # <<>>
                /\ heard'.mid > 60 \/ heard'.high > 60
          /\ IF fired'.pool = <<>>
             THEN fired'.pick = ""
             ELSE /\ fired'.pick \in PoolMembers(fired'.pool)
                  /\ (\E p \in PoolMembers(fired'.pool) :
                         fired'.dir \in Directions[p])
                       => fired'.dir \in Directions[fired'.pick]
      ]_vars

\* A beat hit drew the left pose from the mid pool, which holds a left pose
\* and a right pose.
C29_Witness ==
    /\ fired.beat /\ fired.dir = "left"
    /\ fired.pool = framesByEnergy.mid /\ Len(fired.pool) = 2
    /\ fired.pick = "base_4_left"

\* A beat hit with high above 0.6 drew from the closeups.
C29_WitnessCloseup ==
    /\ fired.beat /\ heard.high = 61
    /\ fired.pool = closeupFrames /\ fired.pick = "base_13"

\* A hard beat hit drew the high pose, whose name holds no direction.
C29_WitnessNoDirection ==
    /\ fired.beat /\ heard.bass = 81
    /\ fired.pool = framesByEnergy.high /\ fired.pick = "base_12"

\* C30: on every beat hit with the camera physics enabled, a hit that is
\* hard or in bar phase 0 or 1 shakes the camera and sets the zoom to 1.15
\* (hard) or 1.05, and any other hit pushes the pan by 20 in its direction
\* without a shake, also when the picked pose is the current target pose.
C30_ImpulseMatchesHit ==
    [][ (FrameStep /\ fired'.beat /\ superCamActive) =>
          LET hard == heard'.bass > 80
          IN  IF hard \/ brain'.beatCounter < 2
              THEN /\ fired'.impulse.kind = "shake"
                   /\ fired'.impulse.zoom = IF hard THEN 115 ELSE 105
              ELSE /\ fired'.impulse.kind = "pan"
                   /\ fired'.impulse.pan =
                         IF fired'.dir = "left" THEN 0 - 20 ELSE 20
      ]_vars

\* The transition the refs hold is a flow that has not reached its end at
\* the time of the last frame (renderFrame's progress < 1).
FlowInProgress ==
    /\ brain.transitionMode = "FLOW"
    /\ lastFrameTime - brain.transitionStart < brain.transitionDuration

\* C31: the zoom target of the camera physics is 1.05 only on ticks where a
\* flow transition is in progress (elapsed < duration) and the Preview is
\* playing; on every other tick it is 1.0.
C31_ZoomOnlyWhileFlowInProgress ==
    [][ FrameStep =>
          /\ fired'.zoomTarget \in {100, 105}
          /\ fired'.zoomTarget = 105 => (FlowInProgress' /\ isPlaying)
      ]_vars

\* C31, amended: the zoom target of a tick is 1.05 exactly when the camera
\* physics is enabled, the Preview is playing and the transition mode the
\* tick's brain has left is FLOW, in progress or complete; it is 1.0 on
\* every other tick.
C31_ZoomFollowsFlowMode ==
    [][ FrameStep =>
          fired'.zoomTarget =
              IF superCamActive /\ isPlaying /\ brain'.transitionMode = "FLOW"
              THEN 105 ELSE 100
      ]_vars

\* A playing frame 1600 ms after an idle fallback began its 800 ms flow:
\* the flow is complete and the zoom target is 1.05.
C31_Witness ==
    /\ isPlaying /\ superCamActive /\ frameCount >= 2
    /\ brain.transitionMode = "FLOW" /\ ~FlowInProgress
    /\ lastTick.playing
    /\ fired.zoomTarget = 105

\* A frame with the camera physics off while a flow is in progress.
C31_WitnessCameraOff ==
    /\ isPlaying /\ ~superCamActive /\ lastTick.playing
    /\ FlowInProgress /\ fired.moved
    /\ fired.zoomTarget = 100

\* C32: after every tick while playing, the heads-up readout's active pose
\* name equals the director's target pose (letter case aside: the readout
\* starts as BASE for the pose base), also after an idle fallback and after
\* a burst cut.
C32_ReadoutShowsTarget ==
    [][ (FrameStep /\ isPlaying) =>
          toLowerCase(brainState'.activePoseName) =
              toLowerCase(brain'.targetPose)
      ]_vars

\* C35: a tick while the Preview is not playing leaves the target and
\* previous pose, the transition mode, duration and start, the bar-phase
\* counter, the last-beat, last-switch and last-snare times, the burst
\* deadline and the last movement direction unchanged.
C35_PausedTickKeepsBrain ==
    [][ (FrameStep /\ ~isPlaying) => brain' = brain ]_vars

\* A paused frame at a time when the idle fallback of a playing frame
\* would have switched, after the brain had moved while playing.
C35_Witness ==
    /\ ~isPlaying /\ frameCount >= 2 /\ ~lastTick.playing
    /\ fired = NoEvents /\ heard = Silence
    /\ brain.targetPose # "base" /\ brain.lastBeatTime > 0
    /\ lastFrameTime - brain.lastBeatTime > 1500
    /\ lastFrameTime - brain.lastSwitchTime > 1000

\* C38: in every reachable director state a CUT has duration 0, or the
\* initial 100 while no pose switch has assigned a transition, and a FLOW
\* has duration 240 or 800.
C38_ModeDurationPairs ==
    \/ /\ brain.transitionMode = "CUT" /\ brain.transitionDuration = 0
    \/ /\ brain.transitionMode = "CUT" /\ brain.transitionDuration = 100
       /\ brain.transitionStart = 0
       /\ brain.targetPose = "base" /\ brain.previousPose = "base"
    \/ /\ brain.transitionMode = "FLOW"
       /\ brain.transitionDuration \in {240, 800}

\* The flow of an idle fallback, and the flow of a beat hit.
C38_Witness ==
    /\ brain.transitionMode = "FLOW" /\ brain.transitionDuration = 800
    /\ fired.idle /\ fired.moved

C38_WitnessBeatFlow ==
    /\ brain.transitionMode = "FLOW" /\ brain.transitionDuration = 240
    /\ fired.beat /\ fired.moved

\* The initial pair, kept by a beat hit that drew the pose already shown.
C38_WitnessInitialKept ==
    /\ brain.transitionMode = "CUT" /\ brain.transitionDuration = 100
    /\ fired.beat /\ ~fired.moved /\ brain.lastSwitchTime > 0

\* C39: the tear intensity is 0 in every reachable state, so the main image
\* pass never draws the pose in 8 slices.
C39_TearNeverRaised ==
    tearAmount = 0 /\ ~TearSlicesDrawn

\* Two frames of effects decay, the last one with a beat hit and a snare.
C39_Witness ==
    /\ frameCount >= 2 /\ superCamActive /\ lastTick.playing
    /\ fired.beat /\ fired.snare /\ fired.moved
    /\ tearAmount = 0

-----------------------------------------------------------------------------
(* Properties of the frame set of Step4Preview, under SpecMount and        *)
(* SpecAssets.                                                             *)

\* The frames the effect's last run had to load
CurrentFrames == FramesToLoad(generatedFrames, imagePreviewUrl)

\* Every load of the effect's last run that loads images has reported.
LastRunReported ==
    /\ loads # <<>>
    /\ Cardinality(loads[Len(loads)].reported) = Len(loads[Len(loads)].poses)

\* C21: for the frame set the Preview holds, the first one or a
\* replacement, of N >= 1 images, the ready flag is false until the N-th
\* load of that set has reported (loaded or failed) and true from then on.
C21_ReadyOnLastReport ==
    (~effectDue /\ CurrentFrames # <<>>) => (imagesReady <=> LastRunReported)

\* C22: whenever the frame list the pools are built from is non-empty, of
\* any energies and types in any order, the low, mid and high pools are all
\* non-empty after the fallback step.
C22_NoPoolEmpty ==
    (~effectDue /\ CurrentFrames # <<>>) =>
        \A e \in EnergyLevel : framesByEnergy[e] # <<>>

\* C23: whenever the pose map holds at least one loaded bitmap, a draw
\* request of renderFrame resolves to a bitmap: the requested pose's own
\* or that of the pose named "base".
C23_DrawResolvesToBitmap ==
    [][ (drawn' # drawn /\ poseImages.loaded # {}) =>
            drawn'.img \in {drawn'.pose, "base"} ]_vars

\* Every load of every run of the effect has reported.
AllRunsReported ==
    \A r \in 1..Len(loads) :
        Cardinality(loads[r].reported) = Len(loads[r].poses)

\* C40: when the frame set is replaced while image loads of the earlier set
\* are in flight, then once every load of both sets has reported, the pose
\* map holds exactly the successfully loaded bitmaps of the latest set.
C40_MapIsLatestSet ==
    (~effectDue /\ Len(loads) >= 2 /\ AllRunsReported) =>
        poseImages = [run    |-> Len(loads),
                      loaded |-> loads[Len(loads)].newMap]

\* The style the selected id finds has no visualizer configuration: no
\* entry matches, or the entry that does has none.
NoStyleParams ==
    LET style == find(STYLE_PRESETS, selectedStyleId)
    IN  style = 0 \/ STYLE_PRESETS[style].hologramParams = "undefined"

\* C24: with a selected style id that matches no entry of the catalog, or
\* an entry without visualizer configuration, nothing raises: an export
\* hands over the empty configuration and the visualizer, once constructed,
\* has its built-in default params.
C24_UnknownStyleYieldsDefaults ==
    /\ exported.params # "TypeError"
    /\ NoStyleParams =>
         /\ exported # NoExport => exported.params = "{}"
         /\ hologram \in {"none", "default"}

\* An export and a constructed visualizer under an id the catalog lacks.
C24_Witness ==
    /\ selectedStyleId = "gone"
    /\ exported # NoExport /\ exported.params = "{}"
    /\ hologram = "default"

\* The same under the entry that has no visualizer configuration.
C24_WitnessNoParams ==
    /\ selectedStyleId = "plain"
    /\ exported # NoExport /\ exported.params = "{}"
    /\ hologram = "default"

\* An export under the entry that has one hands it over.
C24_WitnessStyled ==
    /\ selectedStyleId = "neon"
    /\ exported.params = "neonParams" /\ hologram = "neonParams"

=============================================================================
